---- MODULE Spec2Model ----
(***************************************************************************)
(* Verification model of the SpaceMap game loop of XenopetsTRHEE           *)
(* (src/src/components/Game/SpaceMap.tsx): frame clock and refresh-rate    *)
(* detector, toroidal world coordinates, ship physics with the circular    *)
(* barrier, firing cooldown and projectile ageing, landing animation,      *)
(* ship trail and radar pulses, and of the WebGL star renderers            *)
(* (src/unnamed/part_002, MobileOptimizedWebGLStars.tsx).                  *)
(*                                                                         *)
(* Numbers.  The source computes in IEEE doubles; the model computes in    *)
(* fixed point and rounds every product and quotient to the nearest unit   *)
(* (RoundDiv; RDiv for Math.round).                                        *)
(*   - frame timestamps and intervals: 1/100 ms (16.67 ms = 1667)          *)
(*   - Date.now / performance.now of the firing code: 1 ms                 *)
(*   - world coordinates and per-tick velocities: 1/PosScale world unit    *)
(*   - square roots of sums of squares: HypotScale/PosScale world unit     *)
(*   - unit vectors: 1/NormScale                                           *)
(*   - cosines and sines: 1/TrigScale, angles in steps of 1/TurnSteps turn *)
(*   - trail life: 1/100 ms; radar radius: 1/10 world unit                 *)
(*                                                                         *)
(* The sections of gameLoop work on disjoint state and are exercised by    *)
(* separate specifications over the same variables: Spec and SpecDetect    *)
(* (frame clock), SpecCoord (coordinate primitives), SpecFire and SpecProj *)
(* (firing, projectiles), SpecBarrier and SpecSpeed (ship, camera,         *)
(* pointer, barrier toggle), SpecTrajectory (landing trajectory).  The     *)
(* frame callback as a whole, with React's queue of state updaters and the *)
(* re-created loop closure, is exercised by SpecScene, SpecLanding and     *)
(* SpecTrail; the star renderer by SpecStars.  The pointer, keyboard and    *)
(* admin handlers (clicks with the pixel hit test, world editing, dialogs) *)
(* are exercised next to the planet by SpecEdit, SpecClick and SpecThrust, *)
(* at the edge of the world by SpecWorld, and mounting and unmounting of   *)
(* the map with the persisted ship state by SpecSession.                   *)
(***************************************************************************)
EXTENDS Integers, Sequences, FiniteSets, TLC

VARIABLES
  \* ---- frame clock / refresh-rate detector -------------------------
  currentScreen,        \* useGameStore().currentScreen
  loopScreen,           \* currentScreen as captured by the running effect closure
  gameLoopRef,          \* TRUE while an animation frame of gameLoop is requested
  frameRequests,        \* frames of gameLoop requested, not yet run or cancelled
  effectStale,          \* TRUE: a state update was committed, loop effect not yet re-run
  lastTime,             \* closure-local `let lastTime` (0 = no prior timestamp)
  frameTimeHistory,     \* frameTimeHistoryRef.current, as sample value |-> occurrences
  refreshRate,          \* refreshRateRef.current
  refreshRateDetected,  \* refreshRateDetectedRef.current
  frameCounter,         \* frameCounter.current
  canvasLarge,          \* canvas.width > 1000 || canvas.height > 600
  deltaTime,            \* the `deltaTime` derived by the last tick (0 before any tick)
  skipFrame,            \* the `skipFrame` computed by the last tick
  drewFrame,            \* TRUE iff the last tick executed the canvas draw pass
  allValid,             \* every interval between ticks so far was > 0 and < 50 ms
  \* ---- world coordinate primitives under test -----------------------
  coordA,               \* first argument
  coordB,               \* second argument
  coordOp,              \* "none", "wrap", "normalize" or "star": the primitive last applied
  wrapResult,           \* getWrappedDistance(coordA, coordB)
  starWrapResult,       \* WebGLStarField.getWrappedDistance(coordA, coordB)
  normResult,           \* normalizeCoord(coordA)
  normTwice,            \* normalizeCoord(normalizeCoord(coordA))
  starParallax,         \* star.parallax of the star under test, in tenths
  fullTierOffset,       \* parallaxX of the FinalWebGLStars vertex shader
  mobileTierOffset,     \* parallaxX of MobileOptimizedWebGLStars
  \* ---- firing and projectiles ------------------------------------------
  now,                  \* milliseconds since mount: performance.now() = now,
                        \* Date.now() = DateBase + now
  lastShootTime,        \* lastShootTime.current (Date.now() of the last shot, 0 at mount)
  projectiles,          \* projectilesRef.current: records [life, maxLife] in ms,
                        \* with the bookkeeping fields born, firstStep
  shootingIntervalRef,  \* 0 = null, else the time the auto-fire interval is next due
  intervalTimers,       \* number of setInterval timers created and not cleared
  isMousePressed,       \* useState isMousePressed
  isLandingAnimationActive,
  worldEditing,         \* user?.isAdmin && isWorldEditMode
  showLandingModal,
  showNPCModal,
  lastFrameTimeRef,     \* lastFrameTimeRef.current (performance.now() of the last update)
  fireCalls,            \* number of shootProjectile calls so far
  shotTimes,            \* Date.now() of every projectile spawned, in order
  burstStart,           \* time of the call that opened the current 100 ms burst, -1 = none
  burstCalls,           \* shootProjectile calls in the current burst
  burstShots,           \* projectiles spawned in the current burst
  expired,              \* removal records [age, firstStep, lastStep] of projectiles
  \* ---- ship, camera and pointer -----------------------------------------
  ship,                 \* gameState.ship: [x, y, vx, vy] (angle is not modelled)
  camera,               \* gameState.camera: [x, y]
  mouseRef,             \* mouseRef.current: [x, y], canvas coordinates
  hasMouseMoved,        \* hasMouseMoved.current
  mouseInWindow,        \* useState mouseInWindow
  isBarrierCollisionEnabled,  \* useGameStore().isBarrierCollisionEnabled
  shipTicks,            \* number of ticks of the ship section so far
  pointerEvents,        \* number of pointer events so far
  \* ---- the tick as a whole: closure, queued updaters, landing, trail, radar
  loopModal,            \* showLandingModal as captured by the loop closure
  loopInWindow,         \* mouseInWindow as captured by the loop closure
  loopLanding,          \* isLandingAnimationActive && landingAnimationData as
                        \* captured by the loop closure: NoLanding or the data
  pending,              \* setGameState updaters queued and not yet run
  landingAnimationData, \* useState landingAnimationData: NoLanding or
                        \* [startTime, initialShipX, initialShipY]
  selectedPlanet,       \* useState selectedPlanet: TRUE iff the planet is selected
  planetCalls,          \* number of setCurrentScreen("planet") calls so far
  drawShip,             \* gameState.ship as read by the draw pass of the last tick
  drawCamera,           \* gameState.camera as read by the draw pass of the last tick
  starCamera,           \* cameraX/cameraY props of the star renderer (last render)
  trailPoints,          \* trailPointsRef.current: records [life, born]
  lastTrailTime,        \* lastTrailTime.current
  radarPulses,          \* radarPulsesRef.current: records [radius, life]
  lastRadarPulseTime,   \* lastRadarPulseTime.current.get(planet.id), -1 = no entry
  \* ---- the WebGL star renderer (full tier or reduced tier)
  isMobile,             \* TRUE: MobileOptimizedWebGLStars, FALSE: FinalWebGLStars
  webglAvailable,       \* whether new THREE.WebGLRenderer(...) succeeds
  starsLoaded,          \* stars.length > 0
  starCount,            \* length of the star list the map view generates
  drawnStars,           \* indices (from 0) of the stars in the current geometry
  starPhase,            \* "unmounted", "mounted", "torn_down" or "crashed"
  rendererRef,          \* rendererRef.current: "none", "live" or "disposed"
  pointsLive,           \* star geometries and materials created and not disposed
  pointsCreated,        \* star geometries created so far
  animationIdRef,       \* TRUE iff an animation frame of the renderer is requested
  starFrames,           \* number of renderer.render calls so far
  starRenders,          \* number of changes of the camera props so far
  errorPropagated,      \* an exception has left an effect of the renderer
  \* ---- world editing (admin), planets and the landing dialog
  isAdmin,              \* user?.isAdmin
  isWorldEditMode,      \* useGameStore().isWorldEditMode
  selectedWorldId,      \* useState selectedWorldId: TRUE iff the planet is selected
  isDragging,           \* useState isDragging
  dragOffset,           \* useState dragOffset: [x, y]
  planet,               \* the planet's entry of planetsRef.current: [x, y] in
                        \* 1/PosScale, [size, interactionRadius] in world
                        \* units, rotation in tenths of a radian
  planetImage,          \* planetImagesRef.current.get(planet.id): [loaded, alpha]
  worldTimeouts,        \* pending window.world*Timeout timers: kind |-> payload
  lastWorldUpdate,      \* arguments of the last updateWorldPosition call
  worldStore,           \* the planet as the world-position store holds it
  editEvents,           \* number of inputs to the admin controls so far
  landingClick,         \* the click that last opened the landing dialog: where
                        \* the ship was and what lay under the pointer
  landingPlanet,        \* x, y of the planet object held by selectedPlanet and
                        \* landingAnimationData.planet
  pointerMoved,         \* the pointer has moved since it last left the canvas
  \* ---- mount, unmount and the ship-state persistence bridge
  mounted,              \* the map view is mounted
  savedShipState,       \* what getShipState() returns: NoShipState or the
                        \* argument of the last forceSaveShipState call
  lastSave,             \* argument of the last saveShipState call
  forceSavedMounted,    \* forceSaveShipState was called while the view
                        \* stayed mounted
  mountState,           \* [count, state]: number of mounts so far and what
                        \* the last one made of getInitialGameState()
  radarLog              \* the radar pulses since the ship came into range:
                        \* [prev, gap, missed]

loopVars == << currentScreen, loopScreen, gameLoopRef, frameRequests,
               effectStale, lastTime,
               frameTimeHistory, refreshRate, refreshRateDetected,
               frameCounter, canvasLarge, deltaTime, skipFrame, drewFrame,
               allValid >>

coordVars == << coordA, coordB, coordOp, wrapResult, starWrapResult,
                normResult, normTwice, starParallax, fullTierOffset,
                mobileTierOffset >>

fireVars == << now, lastShootTime, projectiles, shootingIntervalRef,
               intervalTimers,
               isMousePressed, isLandingAnimationActive, worldEditing,
               showLandingModal, showNPCModal, lastFrameTimeRef, fireCalls,
               shotTimes, burstStart, burstCalls, burstShots, expired >>

shipVars == << ship, camera, mouseRef, hasMouseMoved, mouseInWindow,
               isBarrierCollisionEnabled, shipTicks, pointerEvents >>

sceneVars == << loopModal, loopInWindow, loopLanding, pending,
                landingAnimationData, selectedPlanet, planetCalls, drawShip,
                drawCamera, starCamera, trailPoints, lastTrailTime,
                radarPulses, lastRadarPulseTime >>

starVars == << isMobile, webglAvailable, starsLoaded, starCount, drawnStars,
               starPhase, rendererRef,
               pointsLive, pointsCreated, animationIdRef, starFrames,
               starRenders, errorPropagated >>

editVars == << isAdmin, isWorldEditMode, selectedWorldId, isDragging,
              dragOffset, planet, planetImage, worldTimeouts,
              lastWorldUpdate, worldStore, editEvents >>

clickVars == << landingClick, landingPlanet, pointerMoved >>

saveVars == << mounted, savedShipState, lastSave, forceSavedMounted,
              mountState >>

worldVars == << editVars, clickVars, saveVars, radarLog >>

vars == << loopVars, coordVars, fireVars, shipVars, sceneVars, starVars,
          worldVars >>

(***************************************************************************)
(* Arithmetic helpers                                                      *)
(***************************************************************************)
Abs(x) == IF x < 0 THEN -x ELSE x

Min(a, b) == IF a < b THEN a ELSE b

\* JavaScript's a % b for b > 0: the remainder has the sign of a
JsRem(a, b) == IF a >= 0 THEN a % b ELSE -((-a) % b)

\* a / b rounded to the nearest integer, halves away from zero (b > 0): the
\* fixed-point image of a floating-point quotient or product
RoundDiv(a, b) ==
  IF a >= 0 THEN (2 * a + b) \div (2 * b) ELSE -((2 * (-a) + b) \div (2 * b))

RECURSIVE ISqrtFrom(_, _, _)
ISqrtFrom(n, r, b) ==
  IF b = 0 THEN r
  ELSE IF r + b <= n \div (r + b) THEN ISqrtFrom(n, r + b, b \div 2)
  ELSE ISqrtFrom(n, r, b \div 2)

(***************************************************************************)
(* World coordinate system                                                 *)
(***************************************************************************)
WORLD_SIZE == 100000

PosScale == 2 ^ 12              \* model position units per world unit

WorldExtent == WORLD_SIZE * PosScale

HypotScale == 2 ^ 6             \* Math.sqrt(a*a + b*b) is taken on a grid of
                                \* PosScale / HypotScale points per world unit

NormScale == 2 ^ 14             \* components of a unit vector are multiples of 1/NormScale

\* Math.sqrt(a * a + b * b), in model position units
Hypot(a, b) ==
  LET \* ISqrt: SpaceMap.tsx 1918-1918
      \* floor of the square root of n >= 0
      ISqrt(n) == ISqrtFrom(n, 0, 2 ^ 15)
  IN
  LET a1 == RoundDiv(a, HypotScale)
      b1 == RoundDiv(b, HypotScale)
  IN  HypotScale * ISqrt(a1 * a1 + b1 * b1)

CENTER_X == WorldExtent \div 2

CENTER_Y == WorldExtent \div 2

\* getWrappedDistance(coord, cameraCoord)
GetWrappedDistance(coord, cameraCoord) ==
  LET delta == coord - cameraCoord
  IN  IF delta > WorldExtent \div 2 THEN delta - WorldExtent
      ELSE IF delta < -(WorldExtent \div 2) THEN delta + WorldExtent
      ELSE delta

\* delta * parallax for a parallax of p tenths
ParallaxOf(delta, p) == (delta \div 10) * p + RoundDiv((delta % 10) * p, 10)

\* variant: the remainder is not folded back into the positive range
NormalizeCoord_Rem(coord) == JsRem(coord, WorldExtent)

\* normalizeCoord(coord)
NormalizeCoord(coord) ==
  JsRem(JsRem(coord, WorldExtent) + WorldExtent, WorldExtent)

(***************************************************************************)
(* Frame clock                                                             *)
(***************************************************************************)
TimeScale == 10 * 10            \* model time units per millisecond

FrameBase == 1000 * TimeScale   \* timestamp of the previous frame callback;
                                \* timestamps are kept relative to it, the code
                                \* only uses differences and the test against 0

DefaultDelta == 1667            \* 16.67 ms
DeltaCap == 3333                \* 33.33 ms
SampleLimit == 5000             \* 50 ms
SampleCount == 60
DefaultRefreshRate == 60

MaxTicks == 62                  \* cap on frameCounter

\* intervals the host may leave between two frame callbacks (1/100 ms)
FrameIntervals == {695, 1667, 6000}

\* the wider set of intervals used to exercise detectRefreshRate
DetectIntervals == {417, 606, 695, 800, 1111, 1333, 1667, 6000}

AllIntervals == FrameIntervals \cup DetectIntervals

ValidSamples == {d \in AllIntervals : d > 0 /\ d < SampleLimit}

commonRates == << 60, 75, 90, 120, 144, 165, 240 >>

RECURSIVE SumOver(_, _)
SumOver(f, S) ==
  IF S = {} THEN 0
  ELSE LET v == CHOOSE x \in S : TRUE
       IN  v * f[v] + SumOver(f, S \ {v})

RECURSIVE CountOver(_, _)
CountOver(f, S) ==
  IF S = {} THEN 0
  ELSE LET v == CHOOSE x \in S : TRUE
       IN  f[v] + CountOver(f, S \ {v})

\* frameHistory.length
HistoryLen(h) == CountOver(h, DOMAIN h)

\* Math.round(1000 / avgFrameTime), avgFrameTime = sum / length
MeasuredRate(h) ==
  LET \* HistorySum: SpaceMap.tsx 211-211
      \* frameHistory.reduce((a, b) => a + b, 0)
      HistorySum == SumOver(h, DOMAIN h)
      \* RDiv: SpaceMap.tsx 212-212
      \* a / b rounded to the nearest integer, halves towards +infinity (b > 0);
      \* this is also Math.round applied to the exact quotient
      RDiv(a, b) == (2 * a + b) \div (2 * b)
  IN
                   RDiv(1000 * TimeScale * HistoryLen(h), HistorySum)

\* commonRates.reduce((prev, curr) => |curr - d| < |prev - d| ? curr : prev)
RECURSIVE ReduceClosest(_, _, _)
ReduceClosest(prev, i, d) ==
  IF i > Len(commonRates) THEN prev
  ELSE ReduceClosest(IF Abs(commonRates[i] - d) < Abs(prev - d)
                       THEN commonRates[i] ELSE prev,
                     i + 1, d)

\* variant: on a tie the later (higher) candidate wins
ClosestRate_TieLast(d) ==
  LET R == {commonRates[i] : i \in 1 .. Len(commonRates)}
      N == {c \in R : \A c2 \in R : Abs(c - d) <= Abs(c2 - d)}
  IN  CHOOSE c \in N : \A c2 \in N : c >= c2

\* the result of commonRates.reduce(...) for the measured rate d
ClosestRate(d) == ReduceClosest(commonRates[1], 2, d)

\* detectRefreshRate(): the pair <<refreshRateRef, refreshRateDetectedRef>> after the call
DetectRefreshRate(h, rate, detected) ==
  IF detected THEN << rate, detected >>
  ELSE IF HistoryLen(h) >= SampleCount
       THEN << ClosestRate(MeasuredRate(h)), TRUE >>
       ELSE << rate, detected >>

\* variant: the raw interval is not capped
DeltaTimeOf_NoCap(last, currentTime) ==
  IF last = 0 THEN DefaultDelta ELSE currentTime - last

\* const deltaTime = lastTime === 0 ? 16.67 : Math.min(rawDeltaTime, 33.33)
DeltaTimeOf(last, currentTime) ==
  IF last = 0 THEN DefaultDelta ELSE Min(currentTime - last, DeltaCap)

\* variant: every interval between two frame callbacks is recorded as a
\* sample
TickClock_AnySample(d) ==
  LET \* FrameSkipOf: SpaceMap.tsx 1847-1854
      \* let frameSkip = ...
      FrameSkipOf(large, rate) ==
        IF large
          THEN IF rate >= 144 THEN 3 ELSE IF rate >= 120 THEN 2 ELSE 1
          ELSE 1
  IN
  LET currentTime == FrameBase + d
      sample      == ~refreshRateDetected /\ lastTime > 0
      hist        == IF sample
                       THEN [frameTimeHistory EXCEPT
                               ![currentTime - lastTime] = @ + 1]
                       ELSE frameTimeHistory
      det         == IF sample /\ HistoryLen(hist) >= SampleCount
                       THEN DetectRefreshRate(hist, refreshRate,
                                              refreshRateDetected)
                       ELSE << refreshRate, refreshRateDetected >>
  IN  /\ frameTimeHistory' = hist
      /\ refreshRate' = det[1]
      /\ refreshRateDetected' = det[2]
      /\ deltaTime' = DeltaTimeOf(lastTime, currentTime)
      /\ skipFrame' = (frameCounter % FrameSkipOf(canvasLarge, det[1]) # 0)
      /\ frameCounter' = frameCounter + 1
      /\ lastTime' = FrameBase
      /\ allValid' = (allValid /\ (frameCounter = 0 \/ d \in ValidSamples))

\* gameLoop(currentTime), frame-clock part; d is the time since the previous
\* frame callback
TickClock(d) ==
  LET \* FrameSkipOf: SpaceMap.tsx 1847-1854
      \* let frameSkip = ...
      FrameSkipOf(large, rate) ==
        IF large
          THEN IF rate >= 144 THEN 3 ELSE IF rate >= 120 THEN 2 ELSE 1
          ELSE 1
  IN
  LET currentTime == FrameBase + d
      sample      == ~refreshRateDetected /\ lastTime > 0
                     /\ (currentTime - lastTime) > 0
                     /\ (currentTime - lastTime) < SampleLimit
      hist        == IF sample
                       THEN [frameTimeHistory EXCEPT
                               ![currentTime - lastTime] = @ + 1]
                       ELSE frameTimeHistory
      det         == IF sample /\ HistoryLen(hist) >= SampleCount
                       THEN DetectRefreshRate(hist, refreshRate,
                                              refreshRateDetected)
                       ELSE << refreshRate, refreshRateDetected >>
  IN  /\ frameTimeHistory' = hist
      /\ refreshRate' = det[1]
      /\ refreshRateDetected' = det[2]
      /\ deltaTime' = DeltaTimeOf(lastTime, currentTime)
      /\ skipFrame' = (frameCounter % FrameSkipOf(canvasLarge, det[1]) # 0)
      /\ frameCounter' = frameCounter + 1
      /\ lastTime' = FrameBase
      /\ allValid' = (allValid /\ (frameCounter = 0 \/ d \in ValidSamples))

\* One frame callback of gameLoop.
Tick(d) ==
  /\ gameLoopRef
  /\ frameCounter < MaxTicks
  /\ IF loopScreen # "world"
       THEN \* screen guard: return without work and without a new request
            /\ gameLoopRef' = FALSE
            /\ frameRequests' = frameRequests - 1
            /\ UNCHANGED << currentScreen, loopScreen, effectStale, lastTime,
                            frameTimeHistory, refreshRate, refreshRateDetected,
                            frameCounter, canvasLarge, deltaTime, skipFrame,
                            drewFrame, allValid >>
       ELSE /\ TickClock(d)
            /\ drewFrame' = TRUE          \* the draw pass is unconditional
            /\ effectStale' = TRUE        \* setGameState returns a new object
            /\ gameLoopRef' = TRUE        \* requestAnimationFrame(gameLoop)
            /\ frameRequests' = frameRequests - 1 + 1
            /\ UNCHANGED << currentScreen, loopScreen, canvasLarge >>
  /\ UNCHANGED << coordVars, fireVars, shipVars >>
  /\ UNCHANGED sceneVars
  /\ UNCHANGED starVars
  /\ UNCHANGED worldVars

\* the argument of saveShipState and forceSaveShipState (the angle is not
\* part of the model's ship)
ShipState(s, cam) ==
  [saved |-> TRUE, x |-> s.x, y |-> s.y, vx |-> s.vx, vy |-> s.vy,
   cameraX |-> cam.x, cameraY |-> cam.y]

\* variant: the cleanup of the loop effect cancels nothing
CancelAnimationFrame_Skip(requests, requested) == requests

\* if (gameLoopRef.current) cancelAnimationFrame(gameLoopRef.current): the
\* number of requested frames afterwards; a frame that has run is not
\* cancelled
CancelAnimationFrame(requests, requested) ==
  IF requested THEN requests - 1 ELSE requests

\* React re-runs the loop effect after a committed state change: the cleanup
\* cancels the requested frame, the body creates a new closure (lastTime = 0,
\* current props) and requests a frame.
EffectRerun ==
  /\ effectStale
  /\ effectStale' = FALSE
  /\ lastTime' = 0
  /\ loopScreen' = currentScreen
  /\ gameLoopRef' = TRUE
  /\ frameRequests' = CancelAnimationFrame(frameRequests, gameLoopRef) + 1
  /\ UNCHANGED << currentScreen, frameTimeHistory, refreshRate,
                  refreshRateDetected, frameCounter, canvasLarge, deltaTime,
                  skipFrame, drewFrame, allValid >>
  /\ UNCHANGED << coordVars, fireVars, shipVars >>
  /\ UNCHANGED sceneVars
  /\ UNCHANGED starVars
  \* the cleanup saves the ship
  /\ savedShipState' = ShipState(ship, camera)
  /\ forceSavedMounted' = TRUE
  /\ UNCHANGED << editVars, clickVars, mounted, lastSave, mountState,
                  radarLog >>

\* The screen controller leaves the map screen (store update; the loop effect
\* does not depend on currentScreen).
LeaveWorld ==
  /\ currentScreen = "world"
  /\ currentScreen' = "planet"
  /\ UNCHANGED << loopScreen, gameLoopRef, frameRequests, effectStale,
                  lastTime,
                  frameTimeHistory, refreshRate, refreshRateDetected,
                  frameCounter, canvasLarge, deltaTime, skipFrame, drewFrame,
                  allValid >>
  /\ UNCHANGED << coordVars, fireVars, shipVars >>
  /\ UNCHANGED sceneVars
  /\ UNCHANGED starVars
  /\ UNCHANGED worldVars

InitLoop ==
  /\ currentScreen = "world"
  /\ loopScreen = "world"
  /\ gameLoopRef = TRUE
  /\ frameRequests = 1
  /\ effectStale = FALSE
  /\ lastTime = 0
  /\ frameTimeHistory = [v \in AllIntervals |-> 0]
  /\ refreshRate = DefaultRefreshRate
  /\ refreshRateDetected = FALSE
  /\ frameCounter = 0
  /\ canvasLarge \in BOOLEAN
  /\ deltaTime = 0
  /\ skipFrame = FALSE
  /\ drewFrame = FALSE
  /\ allValid = TRUE

\* the coordinate primitives before any application
CoordIdle ==
  /\ coordA = 0
  /\ coordB = 0
  /\ coordOp = "none"
  /\ wrapResult = 0
  /\ starWrapResult = 0
  /\ normResult = 0
  /\ normTwice = 0
  /\ starParallax = 10
  /\ fullTierOffset = 0
  /\ mobileTierOffset = 0

\* firing state right after mount
FireIdle ==
  /\ now = 0
  /\ lastShootTime = 0
  /\ projectiles = << >>
  /\ shootingIntervalRef = 0
  /\ intervalTimers = 0
  /\ isMousePressed = FALSE
  /\ isLandingAnimationActive = FALSE
  /\ worldEditing = FALSE
  /\ showLandingModal = FALSE
  /\ showNPCModal = FALSE
  /\ lastFrameTimeRef = 0
  /\ fireCalls = 0
  /\ shotTimes = << >>
  /\ burstStart = -1
  /\ burstCalls = 0
  /\ burstShots = 0
  /\ expired = {}

\* the ship at rest at the default spawn point, the pointer not yet moved
ShipIdle ==
  /\ ship = [x |-> CENTER_X, y |-> CENTER_Y + 200 * PosScale, vx |-> 0, vy |-> 0]
  /\ camera = [x |-> CENTER_X, y |-> CENTER_Y + 200 * PosScale]
  /\ mouseRef = [x |-> 0, y |-> 0]
  /\ hasMouseMoved = FALSE
  /\ mouseInWindow = TRUE
  /\ isBarrierCollisionEnabled = TRUE
  /\ shipTicks = 0
  /\ pointerEvents = 0

INTERACTION_RADIUS == 90        \* interactionRadius of the default planets

PLANET_RING == 250              \* the default planets lie on this circle

PlanetX == CENTER_X + PLANET_RING * PosScale    \* planet-0, angle 0

PlanetY == CENTER_Y

NoLanding == [active |-> FALSE]

\* no modal, no landing, nothing queued, no trail point and no radar pulse
SceneIdle ==
  /\ loopModal = FALSE
  /\ loopInWindow = TRUE
  /\ loopLanding = NoLanding
  /\ pending = << >>
  /\ landingAnimationData = NoLanding
  /\ selectedPlanet = FALSE
  /\ planetCalls = 0
  /\ drawShip = ship
  /\ drawCamera = camera
  /\ starCamera = camera
  /\ trailPoints = << >>
  /\ lastTrailTime = 0
  /\ radarPulses = << >>
  /\ lastRadarPulseTime = -1

PLANET_SIZE == 60               \* size of the default planets

\* planet-0 of generateDefaultPlanets
DefaultPlanet ==
  [x |-> PlanetX, y |-> PlanetY, size |-> PLANET_SIZE, rotation |-> 0,
   interactionRadius |-> INTERACTION_RADIUS]

Quadrants == {0, 1} \X {0, 1}

\* no image in planetImagesRef for the planet
NoImage == [loaded |-> FALSE, alpha |-> [q \in Quadrants |-> 0]]

NoUpdate == [called |-> FALSE]

NoClick == [made |-> FALSE]

\* a click on the centre of the planet, the ship in range, no image loaded
CentreClick ==
  [made |-> TRUE, inRange |-> TRUE, imageLoaded |-> FALSE, rotation |-> 0,
   onVisiblePixel |-> FALSE, inVisualRadius |-> TRUE]

NoTimeouts ==
  [drag |-> NoUpdate, size |-> NoUpdate, rotation |-> NoUpdate,
   interaction |-> NoUpdate]

\* updateWorldPosition(id, { x, y, size, rotation, interactionRadius })
FullUpdate(pl) ==
  [called |-> TRUE, x |-> pl.x, y |-> pl.y, size |-> pl.size,
   rotation |-> pl.rotation, interactionRadius |-> pl.interactionRadius]

\* updateWorldPosition(id, { x, y })
PositionUpdate(pl) == [called |-> TRUE, x |-> pl.x, y |-> pl.y]

\* the store after updateWorldPosition(id, update): the fields of the update
\* replace those of the stored position
StoreMerge(store, update) ==
  IF update.called
    THEN [f \in DOMAIN store |->
            IF f \in DOMAIN update THEN update[f] ELSE store[f]]
    ELSE store

\* variant: the edit branch of handleClick is open to every user
EditingWorlds_AnyUser == isWorldEditMode

\* user?.isAdmin && isWorldEditMode, the condition of the edit branch of
\* handleClick
EditingWorlds == isAdmin /\ isWorldEditMode

\* the condition of the drag branches of handleMouseMove and handleMouseUp
Dragging == isAdmin /\ isWorldEditMode /\ isDragging /\ selectedWorldId

NoShipState == [saved |-> FALSE]

\* nothing selected, nothing dragged, the default planet, no timer pending
EditIdle ==
  /\ selectedWorldId = FALSE
  /\ isDragging = FALSE
  /\ dragOffset = [x |-> 0, y |-> 0]
  /\ planet = DefaultPlanet
  /\ planetImage = NoImage
  /\ worldTimeouts = NoTimeouts
  /\ lastWorldUpdate = NoUpdate
  /\ worldStore = planet
  /\ editEvents = 0

\* no click made yet
ClickIdle ==
  /\ landingClick = NoClick
  /\ landingPlanet = [x |-> PlanetX, y |-> PlanetY]
  /\ pointerMoved = hasMouseMoved

\* the view is mounted for the first time, nothing was saved
SaveIdle ==
  /\ mounted = TRUE
  /\ savedShipState = NoShipState
  /\ lastSave = NoShipState
  /\ forceSavedMounted = FALSE
  /\ mountState =
       [count |-> 1,
        state |-> [ship |-> [x |-> ship.x, y |-> ship.y, angle |-> 0,
                             vx |-> ship.vx, vy |-> ship.vy],
                   camera |-> camera]]

\* no pulse since the ship came into range
NoRadarLog == [prev |-> -1, gap |-> -1, missed |-> FALSE]

\* the map as it is after construction
MapIdle ==
  /\ EditIdle
  /\ ClickIdle
  /\ SaveIdle
  /\ radarLog = NoRadarLog

\* an admin exactly when the firing section is in world-edit mode
WorldIdle ==
  /\ isAdmin = worldEditing
  /\ isWorldEditMode = worldEditing
  /\ MapIdle

\* the star renderer not yet mounted
StarsUnmounted ==
  /\ webglAvailable = TRUE
  /\ starsLoaded = FALSE
  /\ starCount = 0
  /\ drawnStars = << >>
  /\ starPhase = "unmounted"
  /\ rendererRef = "none"
  /\ pointsLive = 0
  /\ pointsCreated = 0
  /\ animationIdRef = FALSE
  /\ starFrames = 0
  /\ starRenders = 0
  /\ errorPropagated = FALSE

\* a desktop device
StarsIdle == isMobile = FALSE /\ StarsUnmounted

Init ==
  /\ InitLoop /\ CoordIdle /\ FireIdle /\ ShipIdle /\ SceneIdle /\ StarsIdle
  /\ WorldIdle

Spec ==
  /\ Init
  /\ [][
       \/ \E d \in FrameIntervals : Tick(d)
       \/ EffectRerun
       \/ LeaveWorld
     ]_vars

(***************************************************************************)
(* Refresh-rate detection on wider sample sets: the loop one sample short  *)
(* of the 60 that detectRefreshRate needs, the history holding two         *)
(* different interval values.                                              *)
(***************************************************************************)

InitDetect ==
  /\ currentScreen = "world"
  /\ loopScreen = "world"
  /\ gameLoopRef = TRUE
  /\ frameRequests = 1
  /\ effectStale = TRUE
  /\ lastTime = FrameBase
  /\ \E v1 \in ValidSamples, v2 \in ValidSamples, a \in 0 .. (SampleCount - 1) :
        /\ v1 < v2
        /\ frameTimeHistory =
             [v \in AllIntervals |->
                IF v = v1 THEN a
                ELSE IF v = v2 THEN SampleCount - 1 - a ELSE 0]
  /\ refreshRate = DefaultRefreshRate
  /\ refreshRateDetected = FALSE
  /\ frameCounter = SampleCount
  /\ canvasLarge = TRUE
  /\ deltaTime = DefaultDelta
  /\ skipFrame = FALSE
  /\ drewFrame = TRUE
  /\ allValid = TRUE
  /\ CoordIdle
  /\ FireIdle
  /\ ShipIdle
  /\ SceneIdle
  /\ StarsIdle
  /\ WorldIdle

SpecDetect ==
  /\ InitDetect
  /\ [][
       \/ \E d \in DetectIntervals : Tick(d)
       \/ EffectRerun
     ]_vars

(***************************************************************************)
(* The coordinate primitives applied to arguments inside and outside the   *)
(* world.                                                                  *)
(***************************************************************************)
\* the frame clock before the first frame, no frame requested
LoopIdle ==
  /\ currentScreen = "world"
  /\ loopScreen = "world"
  /\ gameLoopRef = FALSE
  /\ frameRequests = 0
  /\ effectStale = FALSE
  /\ lastTime = 0
  /\ frameTimeHistory = [v \in AllIntervals |-> 0]
  /\ refreshRate = DefaultRefreshRate
  /\ refreshRateDetected = FALSE
  /\ frameCounter = 0
  /\ canvasLarge = FALSE
  /\ deltaTime = 0
  /\ skipFrame = FALSE
  /\ drewFrame = FALSE
  /\ allValid = TRUE

InWorld(coord) == coord >= 0 /\ coord < WorldExtent

ApplyWrap ==
  LET \* StarWrappedDistance: SpaceMap.tsx 3375-3383
      \* WebGLStarField's getWrappedDistance(pos1, pos2, worldSize = 10000)
      StarWrappedDistance(pos1, pos2) ==
        LET \* StarWorldSize: SpaceMap.tsx 3378-3378
            StarWorldSize == 10000 * PosScale    \* default worldSize of the star-field helper
        IN
        LET delta == pos1 - pos2
        IN  JsRem(delta + StarWorldSize \div 2, StarWorldSize) - StarWorldSize \div 2
  IN
  /\ coordOp' = "wrap"
  /\ wrapResult' = GetWrappedDistance(coordA, coordB)
  /\ starWrapResult' = StarWrappedDistance(coordA, coordB)
  /\ UNCHANGED << coordA, coordB, normResult, normTwice, starParallax,
                  fullTierOffset, mobileTierOffset >>
  /\ UNCHANGED << loopVars, fireVars, shipVars >>
  /\ UNCHANGED sceneVars
  /\ UNCHANGED starVars
  /\ UNCHANGED worldVars

ApplyNormalize ==
  /\ coordOp' = "normalize"
  /\ normResult' = NormalizeCoord(coordA)
  /\ normTwice' = NormalizeCoord(NormalizeCoord(coordA))
  /\ UNCHANGED << coordA, coordB, wrapResult, starWrapResult, starParallax,
                  fullTierOffset, mobileTierOffset >>
  /\ UNCHANGED << loopVars, fireVars, shipVars >>
  /\ UNCHANGED sceneVars
  /\ UNCHANGED starVars
  /\ UNCHANGED worldVars

\* the star renderers place the star at coordA for the camera at coordB;
\* stars and the camera lie in the world
ApplyStarOffset ==
  LET \* MobileTierParallax: MobileOptimizedWebGLStars.tsx 157-165
      \* MobileOptimizedWebGLStars: parallaxX = (star.x - cameraX) * star.parallax
      MobileTierParallax(star, cam, p) == ParallaxOf(star - cam, p)
      \* FullTierParallax: part_002 238-264
      \* vertex shader of FinalWebGLStars: parallaxX for a star at basePositionX =
      \* star (floating offset 0) and the camera at cam
      FullTierParallax(star, cam, p) ==
        LET \* GlslMod: part_002 239-244
            \* GLSL mod(x, y) = x - y * floor(x / y)
            GlslMod(x, y) == x % y
        IN
        LET \* ShaderWorldSize: part_002 210-210
            ShaderWorldSize == 10000 * PosScale  \* uniform worldSize of the full-tier shader
        IN
        LET half          == ShaderWorldSize \div 2
            starX         == GlslMod(star + half, ShaderWorldSize) - half
            wrappedDeltaX == GlslMod(starX - cam + half, ShaderWorldSize) - half
        IN  ParallaxOf(wrappedDeltaX, p)
  IN
  /\ InWorld(coordA)
  /\ InWorld(coordB)
  /\ coordOp' = "star"
  /\ fullTierOffset' = FullTierParallax(coordA, coordB, starParallax)
  /\ mobileTierOffset' = MobileTierParallax(coordA, coordB, starParallax)
  /\ UNCHANGED << coordA, coordB, wrapResult, starWrapResult, normResult,
                  normTwice, starParallax >>
  /\ UNCHANGED << loopVars, fireVars, shipVars >>
  /\ UNCHANGED sceneVars
  /\ UNCHANGED starVars
  /\ UNCHANGED worldVars

SpecCoord ==
  /\ LET \* StarParallaxInputs: SpaceMap.tsx 980-1145
         \* star.parallax, in tenths, of the farthest layer, of layer 3 and of the
         \* nearest layer
         StarParallaxInputs == {3, 10, 22}
         \* CoordInputs: SpaceMap.tsx 351-364
         CoordInputs ==
           LET E == WorldExtent
               H == WorldExtent \div 2
           IN  { -(2 * E) - 1, -E - H - 1, -E, -H - 1, -H, -1, 0, 1, H - 1, H, H + 1,
                 E - 1, E, E + 1, E + H, E + H + 1, 2 * E, 3 * E + 5 }
     IN
     /\ LoopIdle
     /\ coordA \in CoordInputs
     /\ coordB \in CoordInputs
     /\ coordOp = "none"
     /\ wrapResult = 0
     /\ starWrapResult = 0
     /\ normResult = 0
     /\ normTwice = 0
     /\ starParallax \in StarParallaxInputs
     /\ fullTierOffset = 0
     /\ mobileTierOffset = 0
     /\ FireIdle
     /\ ShipIdle
     /\ SceneIdle
     /\ StarsIdle
     /\ WorldIdle
  /\ [][
       ApplyWrap \/ ApplyNormalize \/ ApplyStarOffset
     ]_vars

(***************************************************************************)
(* Firing: shootProjectile, the pointer handlers that call it, the         *)
(* auto-fire interval, and the projectile section of gameLoop.             *)
(***************************************************************************)
SHOOT_COOLDOWN == 333           \* ms

AutoFirePeriod == 333           \* ms, setInterval(..., 333)

PROJECTILE_LIFETIME == 4000     \* 4.0 s, in ms

LoopCapMs == 33                 \* the 33.33 ms cap of the loop's deltaTime, in ms

MaxCalls == 11                  \* cap on shootProjectile calls
MaxFireTime == 400              \* cap on now in the firing specification
MaxProjShots == 2               \* cap on shootProjectile calls in the projectile specification
MaxProjTime == 5000             \* cap on now in the projectile specification

NewProjectile ==
  [life |-> PROJECTILE_LIFETIME, maxLife |-> PROJECTILE_LIFETIME,
   born |-> now, firstStep |-> 0]

\* variant: the time of the shot is not stored
ShootProjectile_NoStamp(projs, last, currentTime) ==
  IF currentTime - last >= SHOOT_COOLDOWN
    THEN [projectiles |-> Append(projs, NewProjectile),
          lastShootTime |-> last, fired |-> TRUE]
    ELSE [projectiles |-> projs, lastShootTime |-> last, fired |-> FALSE]

\* shootProjectile() called at Date.now() = currentTime
ShootProjectile(projs, last, currentTime) ==
  IF currentTime - last >= SHOOT_COOLDOWN
    THEN [projectiles |-> Append(projs, NewProjectile),
          lastShootTime |-> currentTime, fired |-> TRUE]
    ELSE [projectiles |-> projs, lastShootTime |-> last, fired |-> FALSE]

\* A call of shootProjectile together with the bookkeeping of the calls: a
\* burst is opened by a call that has no spawn in the 333 ms before it and
\* collects the calls of the next 100 ms.
CallShoot ==
  LET \* BurstWindow: SpaceMap.tsx 375-400
      BurstWindow == 100              \* ms, the window of the rapid-fire scenario
      \* DateBase: SpaceMap.tsx 376-376
      DateBase == 1000 * 1000         \* Date.now() at mount
  IN
  LET dateNow == DateBase + now
      r       == ShootProjectile(projectiles, lastShootTime, dateNow)
      inBurst == burstStart >= 0 /\ now - burstStart <= BurstWindow
      quiet   == \/ shotTimes = << >>
                 \/ dateNow - shotTimes[Len(shotTimes)] >= SHOOT_COOLDOWN
      n       == IF r.fired THEN 1 ELSE 0
  IN  /\ projectiles' = r.projectiles
      /\ lastShootTime' = r.lastShootTime
      /\ fireCalls' = fireCalls + 1
      /\ shotTimes' = IF r.fired THEN Append(shotTimes, dateNow) ELSE shotTimes
      /\ IF inBurst
           THEN /\ burstCalls' = burstCalls + 1
                /\ burstShots' = burstShots + n
                /\ UNCHANGED burstStart
           ELSE IF quiet
             THEN /\ burstStart' = now
                  /\ burstCalls' = 1
                  /\ burstShots' = n
             ELSE /\ burstStart' = -1
                  /\ burstCalls' = 0
                  /\ burstShots' = 0

\* variant: the interval is never cleared
ClearShootingInterval_Leak(timers, ref) == timers

\* if (shootingIntervalRef.current) clearInterval(shootingIntervalRef.current):
\* the number of live timers afterwards
ClearShootingInterval(timers, ref) == IF ref # 0 THEN timers - 1 ELSE timers

\* handleMouseDown
MouseDown(maxCalls) ==
  /\ fireCalls < maxCalls
  /\ ~isLandingAnimationActive
  /\ ~worldEditing
  /\ isMousePressed' = TRUE
  /\ CallShoot
  /\ shootingIntervalRef' = now + AutoFirePeriod
  /\ intervalTimers' =
       ClearShootingInterval(intervalTimers, shootingIntervalRef) + 1
  /\ UNCHANGED << now, isLandingAnimationActive, worldEditing,
                  showLandingModal, showNPCModal, lastFrameTimeRef, expired >>
  /\ UNCHANGED << loopVars, coordVars, shipVars >>
  /\ UNCHANGED sceneVars
  /\ UNCHANGED starVars
  /\ UNCHANGED worldVars

\* handleMouseDown while landing or in world-edit mode: no effect
MouseDownIgnored ==
  /\ isLandingAnimationActive \/ worldEditing
  /\ UNCHANGED vars

\* handleMouseUp
MouseUp ==
  /\ isMousePressed' = FALSE
  /\ shootingIntervalRef' = 0
  /\ intervalTimers' =
       ClearShootingInterval(intervalTimers, shootingIntervalRef)
  /\ IF Dragging
       THEN /\ lastWorldUpdate' = PositionUpdate(planet)
            /\ worldStore' = StoreMerge(worldStore, lastWorldUpdate')
            /\ isDragging' = FALSE
            /\ dragOffset' = [x |-> 0, y |-> 0]
       ELSE UNCHANGED << lastWorldUpdate, worldStore, isDragging, dragOffset >>
  /\ UNCHANGED << isAdmin, isWorldEditMode, selectedWorldId, planet,
                  planetImage, worldTimeouts, editEvents, clickVars, saveVars,
                  radarLog >>
  /\ UNCHANGED << now, lastShootTime, projectiles, isLandingAnimationActive,
                  worldEditing, showLandingModal, showNPCModal,
                  lastFrameTimeRef, fireCalls, shotTimes, burstStart,
                  burstCalls, burstShots, expired >>
  /\ UNCHANGED << loopVars, coordVars, shipVars >>
  /\ UNCHANGED sceneVars
  /\ UNCHANGED starVars

\* the callback of the auto-fire interval; the timer is re-armed from the
\* time the callback ran
TimerFire(maxCalls) ==
  /\ fireCalls < maxCalls
  /\ shootingIntervalRef # 0
  /\ now >= shootingIntervalRef
  /\ CallShoot
  /\ shootingIntervalRef' = now + AutoFirePeriod
  /\ UNCHANGED intervalTimers
  /\ UNCHANGED << now, isMousePressed, isLandingAnimationActive, worldEditing,
                  showLandingModal, showNPCModal, lastFrameTimeRef, expired >>
  /\ UNCHANGED << loopVars, coordVars, shipVars >>
  /\ UNCHANGED sceneVars
  /\ UNCHANGED starVars
  /\ UNCHANGED worldVars

CanvasWidth == 800 * PosScale   \* canvas.width of the layout modelled

CanvasHeight == 600 * PosScale  \* canvas.height of the layout modelled

ALPHA_VISIBLE == 50             \* a pixel counts as visible if alpha > 50

\* The effect with the dependency selectedWorldId: when the selection
\* changes, the cleanup of the previous run clears the four timers and, if a
\* planet was selected, saves it.
SelectionCleanup(oldSel, newSel) ==
  IF oldSel = newSel
    THEN [timeouts |-> worldTimeouts, update |-> lastWorldUpdate]
    ELSE [timeouts |-> NoTimeouts,
          update   |-> IF oldSel THEN FullUpdate(planet) ELSE lastWorldUpdate]

\* dx, dy of handleClick and isClickOnPlanetPixel: planet minus click
ClickDelta(c) ==
  LET \* WorldClick: SpaceMap.tsx 1507-1512
      \* the click position c (canvas coordinates) in world coordinates
      WorldClick ==
        [x |-> c.x - CanvasWidth \div 2 + camera.x,
         y |-> c.y - CanvasHeight \div 2 + camera.y]
  IN
  [x |-> GetWrappedDistance(planet.x, WorldClick.x),
   y |-> GetWrappedDistance(planet.y, WorldClick.y)]

\* the click lies within the planet's visual radius
InVisualRadius(c) ==
  Hypot(ClickDelta(c).x, ClickDelta(c).y) <= planet.size * PosScale

\* shipToPlanetDistance <= planet.interactionRadius
ShipInRange ==
  Hypot(GetWrappedDistance(planet.x, ship.x),
        GetWrappedDistance(planet.y, ship.y))
    <= planet.interactionRadius * PosScale

\* alpha of the pixel (px, py) of the planet image scaled to imageSize; the
\* image has one alpha value per quadrant
AlphaAt(px, py) ==
  planetImage.alpha[<< IF px < planet.size * PosScale THEN 0 ELSE 1,
                       IF py < planet.size * PosScale THEN 0 ELSE 1 >>]

\* isClickOnPlanetPixel(planet, clickWorldX, clickWorldY, canvas)
IsClickOnPlanetPixel(c) ==
  LET imageSize == planet.size * 2 * PosScale
      imgX      == ClickDelta(c).x + imageSize \div 2
      imgY      == ClickDelta(c).y + imageSize \div 2
  IN  IF ~planetImage.loaded
        THEN InVisualRadius(c)
        ELSE IF imgX < 0 \/ imgX >= imageSize \/ imgY < 0 \/ imgY >= imageSize
          THEN FALSE
          ELSE AlphaAt(imgX, imgY) > ALPHA_VISIBLE

\* the outcome of handleClick's hit tests for a click at c; onNpc is the
\* result of npcShip.isClickOnShip
HitTest(c, onNpc) ==
  IF EditingWorlds
    THEN IF InVisualRadius(c) THEN "planet" ELSE "space"
    ELSE IF onNpc THEN "npc"
    ELSE IF ShipInRange /\ IsClickOnPlanetPixel(c) THEN "planet"
    ELSE "space"

\* handleClick; target is the outcome of its hit tests, off is dx, dy of the
\* hit planet, facts describes the click
HandleClick(target, off, facts, maxCalls) ==
  /\ fireCalls < maxCalls
  /\ ~isLandingAnimationActive
  /\ IF EditingWorlds
       THEN \* selection and drag of planets only
            /\ IF target = "planet"
                 THEN IF selectedWorldId /\ isDragging
                        THEN /\ isDragging' = FALSE
                             /\ dragOffset' = [x |-> 0, y |-> 0]
                             /\ UNCHANGED selectedWorldId
                      ELSE IF selectedWorldId
                        THEN /\ isDragging' = TRUE
                             /\ dragOffset' = off
                             /\ UNCHANGED selectedWorldId
                      ELSE /\ selectedWorldId' = TRUE
                           /\ isDragging' = FALSE
                           /\ UNCHANGED dragOffset
                 ELSE /\ selectedWorldId' = FALSE
                      /\ isDragging' = FALSE
                      /\ dragOffset' = [x |-> 0, y |-> 0]
            /\ worldTimeouts' =
                 SelectionCleanup(selectedWorldId, selectedWorldId').timeouts
            /\ lastWorldUpdate' =
                 SelectionCleanup(selectedWorldId, selectedWorldId').update
            /\ worldStore' = StoreMerge(worldStore, lastWorldUpdate')
            /\ UNCHANGED << lastShootTime, projectiles, fireCalls, shotTimes,
                            burstStart, burstCalls, burstShots,
                            showLandingModal, showNPCModal, selectedPlanet,
                            landingClick, landingPlanet >>
       ELSE /\ IF target = "npc"
                 THEN /\ showNPCModal' = TRUE
                      /\ UNCHANGED << lastShootTime, projectiles, fireCalls,
                                      shotTimes, burstStart, burstCalls,
                                      burstShots, showLandingModal,
                                      selectedPlanet, landingClick,
                                      landingPlanet >>
                 ELSE IF target = "planet"
                   THEN /\ showLandingModal' = TRUE
                        /\ selectedPlanet' = TRUE
                        /\ landingPlanet' = [x |-> planet.x, y |-> planet.y]
                        /\ landingClick' = facts
                        /\ UNCHANGED << lastShootTime, projectiles, fireCalls,
                                        shotTimes, burstStart, burstCalls,
                                        burstShots, showNPCModal >>
                   ELSE /\ CallShoot
                        /\ UNCHANGED << showLandingModal, showNPCModal,
                                        selectedPlanet, landingClick,
                                        landingPlanet >>
            /\ UNCHANGED << selectedWorldId, isDragging, dragOffset,
                            worldTimeouts, lastWorldUpdate, worldStore >>
  /\ UNCHANGED << now, shootingIntervalRef, intervalTimers, isMousePressed,
                  isLandingAnimationActive, worldEditing, lastFrameTimeRef,
                  expired >>
  /\ UNCHANGED << loopModal, loopInWindow, loopLanding, pending,
                  landingAnimationData, planetCalls, drawShip, drawCamera,
                  starCamera, trailPoints, lastTrailTime, radarPulses,
                  lastRadarPulseTime >>
  /\ UNCHANGED << isAdmin, isWorldEditMode, planet, planetImage, editEvents,
                  pointerMoved, saveVars, radarLog >>
  \* showLandingModal is a dependency of the loop effect
  /\ effectStale' = (effectStale \/ showLandingModal' # showLandingModal)
  /\ UNCHANGED << currentScreen, loopScreen, gameLoopRef, frameRequests,
                  lastTime,
                  frameTimeHistory, refreshRate, refreshRateDetected,
                  frameCounter, canvasLarge, deltaTime, skipFrame, drewFrame,
                  allValid >>
  /\ UNCHANGED << coordVars, shipVars, starVars >>

\* handleClick; target is the outcome of its hit tests (a hit planet is hit
\* in its centre)
Click(target, maxCalls) ==
  HandleClick(target, [x |-> 0, y |-> 0], CentreClick, maxCalls)

\* handleClick for a click at the canvas position c
ClickAt(c, onNpc, maxCalls) ==
  LET \* ClickFacts: SpaceMap.tsx 1565-1584
      \* what a click at c was made on
      ClickFacts ==
        LET \* ClickIsOnVisiblePixel: SpaceMap.tsx 2460-2467
            \* The draw pass puts the image's left upper corner at planet - size, so
            \* the image pixel under a click is click - planet + size.
            ClickIsOnVisiblePixel ==
              LET imageSize == planet.size * 2 * PosScale
                  px        == imageSize \div 2 - ClickDelta(c).x
                  py        == imageSize \div 2 - ClickDelta(c).y
              IN  /\ px >= 0 /\ px < imageSize /\ py >= 0 /\ py < imageSize
                  /\ AlphaAt(px, py) > ALPHA_VISIBLE
        IN
        [made |-> TRUE, inRange |-> ShipInRange,
         imageLoaded |-> planetImage.loaded, rotation |-> planet.rotation,
         onVisiblePixel |-> ClickIsOnVisiblePixel,
         inVisualRadius |-> InVisualRadius(c)]
  IN
  HandleClick(HitTest(c, onNpc), ClickDelta(c), ClickFacts, maxCalls)

\* time passes
Advance(s, limit) ==
  /\ now + s <= limit
  /\ now' = now + s
  /\ UNCHANGED << lastShootTime, projectiles, shootingIntervalRef,
                  intervalTimers,
                  isMousePressed, isLandingAnimationActive, worldEditing,
                  showLandingModal, showNPCModal, lastFrameTimeRef, fireCalls,
                  shotTimes, burstStart, burstCalls, burstShots, expired >>
  /\ UNCHANGED << loopVars, coordVars, shipVars >>
  /\ UNCHANGED sceneVars
  /\ UNCHANGED starVars
  /\ UNCHANGED worldVars

\* variant: projectiles age by the loop's capped step
ProjectileUpdate_Capped(projs, dt) ==
  LET step == Min(dt, LoopCapMs)
      aged == [i \in 1 .. Len(projs) |->
                 [projs[i] EXCEPT !.life = @ - step,
                                  !.firstStep = IF @ = 0 THEN dt ELSE @]]
  IN  [kept |-> SelectSeq(aged, LAMBDA q : ~(q.life <= 0)),
       gone |-> {aged[i] : i \in {j \in 1 .. Len(aged) : aged[j].life <= 0}}]

\* the projectile loop of gameLoop for projectileDeltaTime = dt: every
\* projectile ages by dt and is spliced out when its life is <= 0
ProjectileUpdate(projs, dt) ==
  LET aged == [i \in 1 .. Len(projs) |->
                 [projs[i] EXCEPT !.life = @ - dt,
                                  !.firstStep = IF @ = 0 THEN dt ELSE @]]
  IN  [kept |-> SelectSeq(aged, LAMBDA q : ~(q.life <= 0)),
       gone |-> {aged[i] : i \in {j \in 1 .. Len(aged) : aged[j].life <= 0}}]

\* gameLoop, projectile section, run at performance.now() = now
TickProjectiles ==
  /\ now > lastFrameTimeRef
  /\ LET dt == now - lastFrameTimeRef
         u  == ProjectileUpdate(projectiles, dt)
     IN  /\ projectiles' = u.kept
         /\ expired' = expired \cup
                         {[age |-> now - q.born, firstStep |-> q.firstStep,
                           lastStep |-> dt] : q \in u.gone}
  /\ lastFrameTimeRef' = now
  /\ UNCHANGED << now, lastShootTime, shootingIntervalRef, intervalTimers,
                  isMousePressed,
                  isLandingAnimationActive, worldEditing, showLandingModal,
                  showNPCModal, fireCalls, shotTimes, burstStart, burstCalls,
                  burstShots >>
  /\ UNCHANGED << loopVars, coordVars, shipVars >>
  /\ UNCHANGED sceneVars
  /\ UNCHANGED starVars
  /\ UNCHANGED worldVars

InitFire ==
  /\ LoopIdle
  /\ CoordIdle
  /\ ShipIdle
  /\ SceneIdle
  /\ StarsIdle
  /\ now = 0
  /\ lastShootTime = 0
  /\ projectiles = << >>
  /\ shootingIntervalRef = 0
  /\ intervalTimers = 0
  /\ isMousePressed = FALSE
  /\ isLandingAnimationActive = FALSE
  /\ worldEditing \in BOOLEAN
  /\ showLandingModal = FALSE
  /\ showNPCModal = FALSE
  /\ lastFrameTimeRef = 0
  /\ fireCalls = 0
  /\ shotTimes = << >>
  /\ burstStart = -1
  /\ burstCalls = 0
  /\ burstShots = 0
  /\ expired = {}
  /\ WorldIdle

SpecFire ==
  /\ InitFire
  /\ [][
       \/ MouseDown(MaxCalls)
       \/ MouseDownIgnored
       \/ MouseUp
       \/ TimerFire(MaxCalls)
       \/ \E target \in {"space", "npc", "planet"} : Click(target, MaxCalls)
       \/ \E s \in {10, 333} : Advance(s, MaxFireTime)
     ]_vars

SpecProj ==
  /\ InitFire
  /\ [][
       \/ Click("space", MaxProjShots)
       \/ \E s \in {500, 700} : Advance(s, MaxProjTime)
       \/ TickProjectiles
     ]_vars

(***************************************************************************)
(* Ship section of gameLoop: pointer thrust, friction, barrier, camera.    *)
(* Positions and per-tick velocities are integers in units of 1/PosScale   *)
(* world unit; every floating-point product or quotient is rounded to the  *)
(* nearest such integer.                                                   *)
(***************************************************************************)
SHIP_MAX_SPEED == 2

BARRIER_RADIUS == 600

ThrustRange == 300              \* speedMultiplier = min(distance / 300, 1)

ThrustDeadZone == 10            \* thrust only when distance > 10

ThrustPerMille == 67            \* the factor 0.067

FrictionPercent == 88           \* FRICTION = 0.88

DriftFrictionPerMille == 995    \* the friction 0.995 while the pointer is outside

CameraFollowPercent == 8        \* cameraFollowSpeed = 0.08

MaxShipTicks == 850             \* cap on ticks of the ship section
MaxPointerEvents == 2           \* cap on pointer events

\* pointer positions on the canvas: below and to the right of its centre
PointerPositions ==
  { [x |-> CanvasWidth \div 2, y |-> CanvasHeight],
    [x |-> CanvasWidth \div 2 + 300 * PosScale, y |-> CanvasHeight \div 2] }

\* the pointer block of the ship update
Thrust(s, cam, m, inWindow) ==
  LET worldMouseX == m.x - CanvasWidth \div 2 + cam.x
      worldMouseY == m.y - CanvasHeight \div 2 + cam.y
      dx          == GetWrappedDistance(worldMouseX, s.x)
      dy          == GetWrappedDistance(worldMouseY, s.y)
      distance    == Hypot(dx, dy)
      \* targetSpeed * 0.067
      push        == RoundDiv(SHIP_MAX_SPEED * ThrustPerMille
                                * Min(distance, ThrustRange * PosScale),
                              ThrustRange * 1000)
  IN  IF inWindow /\ distance > ThrustDeadZone * PosScale
        THEN [s EXCEPT !.vx = @ + RoundDiv(dx * push, distance),
                       !.vy = @ + RoundDiv(dy * push, distance)]
        ELSE s

\* variant: no friction
Friction_None(s, inWindow) == s

Friction(s, inWindow) ==
  IF inWindow
    THEN [s EXCEPT !.vx = RoundDiv(@ * FrictionPercent, 100),
                   !.vy = RoundDiv(@ * FrictionPercent, 100)]
    ELSE [s EXCEPT !.vx = RoundDiv(@ * DriftFrictionPerMille, 1000),
                   !.vy = RoundDiv(@ * DriftFrictionPerMille, 1000)]

\* variant: the tentative position is taken whether or not it is inside
BarrierMove_Through(s, barrier) == [s EXCEPT !.x = @ + s.vx, !.y = @ + s.vy]

\* the move to the tentative position, with the barrier check
BarrierMove(s, barrier) ==
  LET \* UnitComponent: SpaceMap.tsx 1964-1965
      \* a / d for d = Hypot(a, _) > 0: a component of a unit vector, times NormScale
      UnitComponent(a, d) ==
        RoundDiv(RoundDiv(a, HypotScale) * NormScale, d \div HypotScale)
  IN
  LET newX  == s.x + s.vx
      newY  == s.y + s.vy
      distanceFromCenter == Hypot(newX - CENTER_X, newY - CENTER_Y)
      centerToShipX    == s.x - CENTER_X
      centerToShipY    == s.y - CENTER_Y
      centerToShipDist == Hypot(centerToShipX, centerToShipY)
      normalX   == UnitComponent(centerToShipX, centerToShipDist)
      normalY   == UnitComponent(centerToShipY, centerToShipDist)
      movementX == newX - s.x
      movementY == newY - s.y
      radialComponent ==
        RoundDiv(movementX * normalX + movementY * normalY, NormScale)
      radialX   == RoundDiv(radialComponent * normalX, NormScale)
      radialY   == RoundDiv(radialComponent * normalY, NormScale)
      tangentX  == movementX - radialX
      tangentY  == movementY - radialY
      velocityDotNormal == RoundDiv(s.vx * normalX + s.vy * normalY, NormScale)
  IN  IF ~barrier \/ distanceFromCenter <= BARRIER_RADIUS * PosScale
        THEN [s EXCEPT !.x = newX, !.y = newY]
        ELSE IF centerToShipDist > 0
          THEN [x  |-> s.x + tangentX + (IF radialComponent < 0 THEN radialX ELSE 0),
                y  |-> s.y + tangentY + (IF radialComponent < 0 THEN radialY ELSE 0),
                vx |-> IF velocityDotNormal > 0
                         THEN s.vx - RoundDiv(velocityDotNormal * normalX, NormScale)
                         ELSE s.vx,
                vy |-> IF velocityDotNormal > 0
                         THEN s.vy - RoundDiv(velocityDotNormal * normalY, NormScale)
                         ELSE s.vy]
          ELSE s

\* the first setGameState updater of a tick outside the landing animation
ShipUpdate(s, cam, m, moved, inWindow, modal, barrier) ==
  LET s1 == IF moved /\ ~modal THEN Thrust(s, cam, m, inWindow) ELSE s
      s2 == BarrierMove(Friction(s1, inWindow), barrier)
  IN  [s2 EXCEPT !.x = NormalizeCoord(@), !.y = NormalizeCoord(@)]

\* variant: the camera is not normalized after the step
CameraUpdate_Unnormalized(cam, s) ==
  [x |-> cam.x + RoundDiv(GetWrappedDistance(s.x, cam.x) * CameraFollowPercent,
                          100),
   y |-> cam.y + RoundDiv(GetWrappedDistance(s.y, cam.y) * CameraFollowPercent,
                          100)]

\* the second setGameState updater: the camera follows the ship
CameraUpdate(cam, s) ==
  [x |-> NormalizeCoord(cam.x + RoundDiv(GetWrappedDistance(s.x, cam.x)
                                           * CameraFollowPercent, 100)),
   y |-> NormalizeCoord(cam.y + RoundDiv(GetWrappedDistance(s.y, cam.y)
                                           * CameraFollowPercent, 100))]

\* gameLoop, ship and camera section, outside the landing animation
TickShip ==
  /\ shipTicks < MaxShipTicks
  /\ ~isLandingAnimationActive
  /\ ship' = ShipUpdate(ship, camera, mouseRef, hasMouseMoved, mouseInWindow,
                        showLandingModal, isBarrierCollisionEnabled)
  /\ camera' = CameraUpdate(camera, ship')
  /\ shipTicks' = shipTicks + 1
  /\ UNCHANGED << mouseRef, hasMouseMoved, mouseInWindow,
                  isBarrierCollisionEnabled, pointerEvents >>
  /\ UNCHANGED << loopVars, coordVars, fireVars >>
  /\ UNCHANGED sceneVars
  /\ UNCHANGED starVars
  /\ UNCHANGED worldVars

\* the pointer events arrive between ticks, every PointerPeriod ticks
PointerSlot ==
  LET \* PointerPeriod: SpaceMap.tsx 1432-1476
      PointerPeriod == 450 * 1        \* pointer events arrive every PointerPeriod ticks
  IN
  /\ pointerEvents < MaxPointerEvents
  /\ shipTicks % PointerPeriod = 0

\* handleMouseMove
MouseMove(p) ==
  LET \* DragTarget: SpaceMap.tsx 1448-1451
      \* the world position a dragged planet is moved to by the pointer at p
      DragTarget ==
        [x |-> p.x - CanvasWidth \div 2 + camera.x - dragOffset.x,
         y |-> p.y - CanvasHeight \div 2 + camera.y - dragOffset.y]
  IN
  /\ PointerSlot
  /\ mouseInWindow
  /\ IF Dragging
       THEN /\ planet' = [planet EXCEPT !.x = DragTarget.x,
                                        !.y = DragTarget.y]
            /\ worldTimeouts' =
                 [worldTimeouts EXCEPT !.drag = PositionUpdate(planet')]
       ELSE UNCHANGED << planet, worldTimeouts >>
  /\ mouseRef' = p
  /\ hasMouseMoved' = TRUE
  /\ pointerMoved' = TRUE
  /\ pointerEvents' = pointerEvents + 1
  /\ UNCHANGED << ship, camera, mouseInWindow, isBarrierCollisionEnabled,
                  shipTicks >>
  /\ UNCHANGED << isAdmin, isWorldEditMode, selectedWorldId, isDragging,
                  dragOffset, planetImage, lastWorldUpdate, worldStore,
                  editEvents,
                  landingClick, landingPlanet, saveVars, radarLog >>
  /\ UNCHANGED << loopVars, coordVars, fireVars >>
  /\ UNCHANGED sceneVars
  /\ UNCHANGED starVars

\* onMouseLeave of the canvas: handleMouseLeave and handleMouseLeaveCanvas
MouseLeave ==
  /\ PointerSlot
  /\ mouseInWindow
  /\ mouseInWindow' = FALSE
  /\ hasMouseMoved' = FALSE
  /\ pointerMoved' = FALSE
  /\ isMousePressed' = FALSE
  /\ shootingIntervalRef' = 0
  /\ intervalTimers' =
       ClearShootingInterval(intervalTimers, shootingIntervalRef)
  /\ pointerEvents' = pointerEvents + 1
  /\ UNCHANGED << ship, camera, mouseRef, isBarrierCollisionEnabled, shipTicks >>
  /\ UNCHANGED << now, lastShootTime, projectiles, isLandingAnimationActive,
                  worldEditing, showLandingModal, showNPCModal,
                  lastFrameTimeRef, fireCalls, shotTimes, burstStart,
                  burstCalls, burstShots, expired >>
  /\ UNCHANGED << loopVars, coordVars >>
  /\ UNCHANGED sceneVars
  /\ UNCHANGED starVars
  /\ UNCHANGED << editVars, landingClick, landingPlanet, saveVars, radarLog >>

\* handleMouseEnter
MouseEnter ==
  /\ PointerSlot
  /\ ~mouseInWindow
  /\ mouseInWindow' = TRUE
  /\ pointerEvents' = pointerEvents + 1
  /\ UNCHANGED << ship, camera, mouseRef, hasMouseMoved,
                  isBarrierCollisionEnabled, shipTicks >>
  /\ UNCHANGED << loopVars, coordVars, fireVars >>
  /\ UNCHANGED sceneVars
  /\ UNCHANGED starVars
  /\ UNCHANGED worldVars

InitBarrier ==
  /\ LoopIdle /\ CoordIdle /\ FireIdle /\ ShipIdle /\ SceneIdle /\ StarsIdle
  /\ isAdmin \in BOOLEAN
  /\ isWorldEditMode = FALSE
  /\ MapIdle

NextBarrier ==
  \/ TickShip
  \/ \E p \in PointerPositions : MouseMove(p)
  \/ MouseLeave
  \/ MouseEnter

SpecBarrier == InitBarrier /\ [][NextBarrier]_vars

\* the barrier toggle of the admin controls
ToggleBarrier ==
  /\ isAdmin
  /\ PointerSlot
  /\ isBarrierCollisionEnabled' = ~isBarrierCollisionEnabled
  /\ pointerEvents' = pointerEvents + 1
  /\ UNCHANGED << ship, camera, mouseRef, hasMouseMoved, mouseInWindow,
                  shipTicks >>
  /\ UNCHANGED << loopVars, coordVars, fireVars >>
  /\ UNCHANGED sceneVars
  /\ UNCHANGED starVars
  /\ UNCHANGED worldVars

SpecSpeed ==
  /\ InitBarrier
  /\ [][
       \/ NextBarrier
       \/ ToggleBarrier
     ]_vars

(***************************************************************************)
(* Landing animation: the ship spirals once around the selected planet     *)
(* while its radius shrinks to a tenth.  The planet is the first of the    *)
(* default planets; its floating motion is left out, so that the planet    *)
(* position is fixed during a landing.                                     *)
(***************************************************************************)
LANDING_DURATION == 1500        \* duration of the landing animation, ms

TrigScale == 2 ^ 10             \* cosines are multiples of 1/TrigScale

TurnSteps == 4 * 6              \* angles are taken in steps of 1/24 turn

\* elapsed time of the animation at performance.now() = t, capped at the
\* duration: progress = LandingElapsed / LANDING_DURATION
LandingElapsed(data, t) == Min(t - data.startTime, LANDING_DURATION)

\* planet + (cos, sin)(initialAngle + progress * 2 pi) * initialRadius
\*        * (1 - progress * 0.9), for progress = p / LANDING_DURATION
OrbitPosition(data, p) ==
  LET \* Cos24: SpaceMap.tsx 2602-2602
      \* Math.cos and Math.sin of k / TurnSteps of a turn, times TrigScale
      Cos24(k) ==
        LET \* CosTable: SpaceMap.tsx 2602-2603
            \* TrigScale * cos(k * 15 degrees), k = 0 .. 6
            CosTable == << 1024, 989, 887, 724, 512, 265, 0 >>
        IN
        LET j == k % TurnSteps
            q == TurnSteps \div 4
        IN  IF j <= q THEN CosTable[j + 1]
            ELSE IF j <= 2 * q THEN -CosTable[2 * q - j + 1]
            ELSE IF j <= 3 * q THEN -CosTable[j - 2 * q + 1]
            ELSE CosTable[4 * q - j + 1]
      \* Sin24: SpaceMap.tsx 2603-2603
      Sin24(k) == Cos24(k + 3 * (TurnSteps \div 4))
  IN
  LET initialDx == data.initialShipX - landingPlanet.x
      initialDy == data.initialShipY - landingPlanet.y
      k         == (TurnSteps * p) \div LANDING_DURATION
      rx        == RoundDiv(initialDx * Cos24(k) - initialDy * Sin24(k),
                            TrigScale)
      ry        == RoundDiv(initialDx * Sin24(k) + initialDy * Cos24(k),
                            TrigScale)
      \* 1 - progress * 0.9 = num / (10 * LANDING_DURATION); the product is
      \* taken on a grid of PosScale / 4 points per world unit
      num       == 10 * LANDING_DURATION - 9 * p
      den       == (10 * LANDING_DURATION) \div 12
  IN  [x |-> landingPlanet.x + RoundDiv(RoundDiv(rx, 4) * (num \div 3), den),
       y |-> landingPlanet.y + RoundDiv(RoundDiv(ry, 4) * (num \div 3), den)]

\* variant: the orbit formula is used up to and including progress = 1
LandingShipPosition_Orbit(data, t) ==
  OrbitPosition(data, LandingElapsed(data, t))

\* shipWorldX / shipWorldY of the draw pass during a landing
LandingShipPosition(data, t) ==
  IF LandingElapsed(data, t) < LANDING_DURATION
    THEN OrbitPosition(data, LandingElapsed(data, t))
    ELSE [x |-> landingPlanet.x, y |-> landingPlanet.y]

\* targetX / targetY of the camera updater during a landing
LandingCameraTarget(data, t) == OrbitPosition(data, LandingElapsed(data, t))

MaxLandingTime == 1750          \* cap on the time of a landing scenario, ms

\* handleLandingConfirm
LandingConfirm ==
  /\ showLandingModal
  /\ IF selectedPlanet
       THEN /\ landingAnimationData' =
                 [active |-> TRUE, startTime |-> now,
                  initialShipX |-> ship.x, initialShipY |-> ship.y]
            /\ isLandingAnimationActive' = TRUE
       ELSE UNCHANGED << landingAnimationData, isLandingAnimationActive >>
  /\ showLandingModal' = FALSE
  /\ selectedPlanet' = FALSE
  /\ effectStale' = TRUE
  /\ UNCHANGED << currentScreen, loopScreen, gameLoopRef, frameRequests,
                  lastTime,
                  frameTimeHistory, refreshRate, refreshRateDetected,
                  frameCounter, canvasLarge, deltaTime, skipFrame, drewFrame,
                  allValid >>
  /\ UNCHANGED << now, lastShootTime, projectiles, shootingIntervalRef,
                  intervalTimers,
                  isMousePressed, worldEditing, showNPCModal,
                  lastFrameTimeRef, fireCalls, shotTimes, burstStart,
                  burstCalls, burstShots, expired >>
  /\ UNCHANGED << loopModal, loopInWindow, loopLanding, pending, planetCalls,
                  drawShip, drawCamera, starCamera, trailPoints,
                  lastTrailTime, radarPulses, lastRadarPulseTime >>
  /\ UNCHANGED << coordVars, shipVars, starVars >>
  /\ UNCHANGED worldVars

\* the ship position of the draw pass, taken s ms after the previous one
DrawLanding(s) ==
  /\ isLandingAnimationActive
  /\ landingAnimationData.active
  /\ now + s <= MaxLandingTime
  /\ now' = now + s
  /\ drawShip' = [ship EXCEPT
                    !.x = LandingShipPosition(landingAnimationData, now').x,
                    !.y = LandingShipPosition(landingAnimationData, now').y]
  /\ UNCHANGED << lastShootTime, projectiles, shootingIntervalRef,
                  intervalTimers,
                  isMousePressed, isLandingAnimationActive, worldEditing,
                  showLandingModal, showNPCModal, lastFrameTimeRef, fireCalls,
                  shotTimes, burstStart, burstCalls, burstShots, expired >>
  /\ UNCHANGED << loopModal, loopInWindow, loopLanding, pending,
                  landingAnimationData, selectedPlanet, planetCalls,
                  drawCamera, starCamera, trailPoints,
                  lastTrailTime, radarPulses, lastRadarPulseTime >>
  /\ UNCHANGED << loopVars, coordVars, shipVars, starVars >>
  /\ UNCHANGED worldVars

\* the landing modal is open on the planet; the ship rests inside the
\* planet's interaction radius, where the persisted ship state put it
InitLanding ==
  LET \* LandingOffsets: SpaceMap.tsx 1754-1758
      \* where the ship rests, relative to the planet, when the player lands
      LandingOffsets ==
        { << 60, 0 >>, << 0, -45 >>, << -30, 40 >>, << 48, -64 >>, << -36, -27 >>,
          << 20, 21 >> }
  IN
  /\ InitLoop
  /\ canvasLarge = FALSE
  /\ CoordIdle
  /\ now = 0
  /\ lastShootTime = 0
  /\ projectiles = << >>
  /\ shootingIntervalRef = 0
  /\ intervalTimers = 0
  /\ isMousePressed = FALSE
  /\ isLandingAnimationActive = FALSE
  /\ worldEditing = FALSE
  /\ showLandingModal = TRUE
  /\ showNPCModal = FALSE
  /\ lastFrameTimeRef = 0
  /\ fireCalls = 0
  /\ shotTimes = << >>
  /\ burstStart = -1
  /\ burstCalls = 0
  /\ burstShots = 0
  /\ expired = {}
  /\ \E o \in LandingOffsets :
       ship = [x |-> PlanetX + o[1] * PosScale, y |-> PlanetY + o[2] * PosScale,
               vx |-> 0, vy |-> 0]
  /\ camera = [x |-> ship.x, y |-> ship.y]
  /\ mouseRef = [x |-> CanvasWidth \div 2, y |-> CanvasHeight \div 2]
  /\ hasMouseMoved = TRUE
  /\ mouseInWindow = TRUE
  /\ isBarrierCollisionEnabled = TRUE
  /\ shipTicks = 0
  /\ pointerEvents = 0
  /\ loopModal = TRUE
  /\ loopInWindow = TRUE
  /\ loopLanding = NoLanding
  /\ pending = << >>
  /\ landingAnimationData = NoLanding
  /\ selectedPlanet = TRUE
  /\ planetCalls = 0
  /\ drawShip = ship
  /\ drawCamera = camera
  /\ starCamera = camera
  /\ trailPoints = << >>
  /\ lastTrailTime = 0
  /\ radarPulses = << >>
  /\ lastRadarPulseTime = -1
  /\ StarsIdle
  /\ isAdmin = FALSE
  /\ isWorldEditMode = FALSE
  /\ EditIdle
  /\ landingClick = CentreClick
  /\ landingPlanet = [x |-> PlanetX, y |-> PlanetY]
  /\ pointerMoved = TRUE
  /\ SaveIdle
  /\ radarLog = NoRadarLog

SpecTrajectory ==
  /\ InitLanding
  /\ [][
       \/ LandingConfirm
       \/ \E s \in {0, 100, 250} : DrawLanding(s)
     ]_vars

(***************************************************************************)
(* The frame callback as a whole.  gameState.ship and gameState.camera are *)
(* single objects that the setGameState updaters change in place, so ship  *)
(* and camera hold what every reader of these objects sees.  An updater    *)
(* runs when React processes it: the first one of a tick possibly at once  *)
(* (when nothing else is queued), the others when the component renders.   *)
(* The loop closure holds showLandingModal, mouseInWindow and the landing  *)
(* state of the render that created it.                                    *)
(***************************************************************************)
PerfBase == 10 * 1000           \* performance.now() when the model's clock is 0

TRAIL_MAX_POINTS == 25

TRAIL_LIFETIME == 1200          \* ms

TrailGap == 35                  \* a new trail point only after more than 35 ms

TrailGapMobile == 70            \* trailUpdateInterval of a landing on mobile

TrailStepCap == 33              \* safeDeltaTime = Math.min(deltaTime, 33)

TrailSpeedPerMille == 100       \* a new trail point only above speed 0.1

RADAR_PERIOD == 1200            \* ms between two radar pulses of a planet

RadarRadius == 80               \* radius 8, in tenths of a world unit

RadarMaxRadius == 400           \* maxRadius 40

RadarGrowth == 4                \* radius + 0.4 per tick

RadarLife == 160                \* life, in ticks

MaxPending == 6                 \* cap on the updaters queued at a time

MaxSceneTicks == 6              \* cap on frame callbacks of a scenario

\* one updater applied to g = [ship, camera] at performance.now() = t
ApplyUpdater(g, u, t) ==
  IF u.kind = "ship"
    THEN IF u.landing.active
           THEN g
           ELSE [g EXCEPT !.ship =
                   ShipUpdate(g.ship, g.camera, mouseRef, hasMouseMoved,
                              u.inWindow, u.modal, isBarrierCollisionEnabled)]
  ELSE IF u.kind = "camera"
    THEN [g EXCEPT !.camera =
            CameraUpdate(g.camera,
                         IF u.landing.active
                           THEN LandingCameraTarget(u.landing, t)
                           ELSE [x |-> g.ship.x, y |-> g.ship.y])]
  ELSE [g EXCEPT !.ship = [x |-> landingPlanet.x, y |-> landingPlanet.y,
                          vx |-> 0, vy |-> 0]]

RECURSIVE ApplyPending(_, _, _)
\* React processes the queue q in order
ApplyPending(g, q, t) ==
  IF q = << >> THEN g
  ELSE ApplyPending(ApplyUpdater(g, Head(q), t), Tail(q), t)

RECURSIVE OldShipObject(_, _, _)
\* The ship object of the gameState that the previous render saw, once React
\* has processed q: the updaters of a tick change it in place, the landing
\* snap puts a new object in its place.
OldShipObject(g, q, t) ==
  IF q = << >> \/ Head(q).kind = "landed" THEN g.ship
  ELSE OldShipObject(ApplyUpdater(g, Head(q), t), Tail(q), t)

\* variant: on overflow the point just pushed is removed (pop for shift)
CreateTrailPoint_Pop(points, t) ==
  LET maxPoints == IF isMobile THEN TRAIL_MAX_POINTS \div 2
                   ELSE TRAIL_MAX_POINTS
  IN  IF Len(points) + 1 > maxPoints THEN points
      ELSE Append(points, [life |-> TRAIL_LIFETIME * TimeScale, born |-> t,
                           call |-> IF points = << >> THEN 1
                                    ELSE points[Len(points)].call + 1])

\* createTrailPoint; `call` numbers the calls since the trail was last empty
CreateTrailPoint(points, t) ==
  LET pushed    == Append(points,
                          [life |-> TRAIL_LIFETIME * TimeScale, born |-> t,
                           call |-> IF points = << >> THEN 1
                                    ELSE points[Len(points)].call + 1])
      maxPoints == IF isMobile THEN TRAIL_MAX_POINTS \div 2
                   ELSE TRAIL_MAX_POINTS
  IN  IF Len(pushed) > maxPoints THEN Tail(pushed) ELSE pushed

\* updateTrailPoints(deltaTime)
UpdateTrailPoints(points, dt) ==
  SelectSeq([i \in 1 .. Len(points) |->
               [points[i] EXCEPT !.life = @ - Min(dt, TrailStepCap * TimeScale)]],
            LAMBDA q : q.life > 0)

\* the planet is in range of the ship s
PlanetInRange(s) ==
  Hypot(GetWrappedDistance(planet.x, s.x), GetWrappedDistance(planet.y, s.y))
    <= planet.interactionRadius * PosScale

\* variant: a pulse on every tick with the planet in range
RadarUpdate_EveryTick(pulses, last, s, t) ==
  LET pulse   == PlanetInRange(s)
      created == IF pulse
                   THEN Append(pulses, [radius |-> RadarRadius,
                                        life |-> RadarLife])
                   ELSE pulses
      grown   == [i \in 1 .. Len(created) |->
                    [radius |-> created[i].radius + RadarGrowth,
                     life |-> created[i].life - 1]]
  IN  [pulses |-> SelectSeq(grown, LAMBDA q : q.life > 0
                                              /\ q.radius <= RadarMaxRadius),
       last   |-> IF pulse THEN t ELSE -1]

\* gameLoop, radar section, for the ship s at currentTime = t
RadarUpdate(pulses, last, s, t) ==
  LET lastPulseTime == IF last = -1 THEN 0 ELSE last
      pulse   == PlanetInRange(s) /\ t - lastPulseTime >= RADAR_PERIOD
      created == IF pulse
                   THEN Append(pulses, [radius |-> RadarRadius,
                                        life |-> RadarLife])
                   ELSE pulses
      grown   == [i \in 1 .. Len(created) |->
                    [radius |-> created[i].radius + RadarGrowth,
                     life |-> created[i].life - 1]]
  IN  [pulses |-> SelectSeq(grown, LAMBDA q : q.life > 0
                                              /\ q.radius <= RadarMaxRadius),
       last   |-> IF ~PlanetInRange(s) THEN -1
                  ELSE IF pulse THEN t ELSE last]

\* variant: the simulation sections run only on frames that are not skipped
RunsSimulation_Unskipped(skip) == ~skip

\* whether a tick with this skipFrame runs the simulation sections: no
\* section of gameLoop reads skipFrame
RunsSimulation(skip) == TRUE

\* One frame callback of gameLoop, d after the previous one.  eager: React
\* runs the tick's first updater inside setGameState.
GameLoop(d, eager, ticks) ==
  LET \* RadarLogged: SpaceMap.tsx 2157-2166
      \* the record of the pulses after a tick at currentTime = t
      RadarLogged(log, inRange, created, t) ==
        IF ~inRange THEN NoRadarLog
        ELSE IF created
          THEN [prev   |-> t,
                gap    |-> IF log.prev = -1 THEN -1 ELSE t - log.prev,
                missed |-> log.missed]
          ELSE [log EXCEPT !.missed = @ \/ (log.prev # -1
                                             /\ t - log.prev >= RADAR_PERIOD)]
      \* PulseCreated: SpaceMap.tsx 568-578
      \* a pulse of this tick is among the pulses: it has aged by one tick
      PulseCreated(pulses) ==
        \E i \in 1 .. Len(pulses) : pulses[i].life = RadarLife - 1
      \* LandedUpdater: SpaceMap.tsx 2690-2699
      LandedUpdater == [kind |-> "landed", modal |-> loopModal,
                        inWindow |-> loopInWindow, landing |-> loopLanding]
      \* CameraUpdater: SpaceMap.tsx 2062-2125
      CameraUpdater == [kind |-> "camera", modal |-> loopModal,
                        inWindow |-> loopInWindow, landing |-> loopLanding]
      \* ShipUpdater: SpaceMap.tsx 1904-2011
      \* the updaters of one tick as the closure of that tick creates them
      ShipUpdater == [kind |-> "ship", modal |-> loopModal,
                      inWindow |-> loopInWindow, landing |-> loopLanding]
      \* MsOf: SpaceMap.tsx 2210-2210
      MsOf == RoundDiv(d, TimeScale)
  IN
  /\ gameLoopRef
  /\ frameCounter < ticks
  /\ Len(pending) + 3 <= MaxPending
  /\ eager => pending = << >>
  /\ now' = now + MsOf
  /\ IF loopScreen # "world"
       THEN /\ gameLoopRef' = FALSE
            /\ frameRequests' = frameRequests - 1
            /\ UNCHANGED << currentScreen, loopScreen, effectStale, lastTime,
                            frameTimeHistory, refreshRate, refreshRateDetected,
                            frameCounter, canvasLarge, deltaTime, skipFrame,
                            drewFrame, allValid >>
            /\ UNCHANGED << projectiles, lastFrameTimeRef, expired,
                            isLandingAnimationActive >>
            /\ UNCHANGED << ship, shipTicks >>
            /\ UNCHANGED << pending, landingAnimationData, planetCalls,
                            drawShip, drawCamera, trailPoints,
                            lastTrailTime, radarPulses, lastRadarPulseTime >>
            /\ UNCHANGED << lastSave, radarLog >>
       ELSE
         LET t        == PerfBase + now'
             \* the ship object after the first setGameState
             s1       == IF eager
                           THEN ApplyUpdater([ship |-> ship, camera |-> camera],
                                             ShipUpdater, now').ship
                           ELSE ship
             queued   == IF eager THEN << CameraUpdater >>
                         ELSE << ShipUpdater, CameraUpdater >>
             landing  == loopLanding.active
             done     == landing
                         /\ LandingElapsed(loopLanding, now') >= LANDING_DURATION
             \* trail point of the moving ship
             moving   == Hypot(s1.vx, s1.vy) * 1000 > TrailSpeedPerMille * PosScale
                         /\ t - lastTrailTime > TrailGap
             trail1   == IF moving THEN CreateTrailPoint(trailPoints, t)
                         ELSE trailPoints
             last1    == IF moving THEN t ELSE lastTrailTime
             trail2   == UpdateTrailPoints(trail1, deltaTime')
             \* trail point of the landing ship, in the draw pass
             orbiting == landing /\ ~done
                         /\ t - last1 > (IF isMobile THEN TrailGapMobile
                                         ELSE TrailGap)
             radar    == RadarUpdate(radarPulses, lastRadarPulseTime, s1, t)
             shots    == ProjectileUpdate(projectiles, now' - lastFrameTimeRef)
         IN  /\ TickClock(d)
             /\ IF RunsSimulation(skipFrame')
                  THEN /\ ship' = s1
                       /\ shipTicks' = shipTicks + 1
                       /\ pending' = pending \o queued
                                       \o (IF done THEN << LandedUpdater >>
                                           ELSE << >>)
                       /\ trailPoints' = IF orbiting
                                           THEN CreateTrailPoint(trail2, t)
                                           ELSE trail2
                       /\ lastTrailTime' = IF orbiting THEN t ELSE last1
                       /\ radarPulses' = radar.pulses
                       /\ lastRadarPulseTime' = radar.last
                       /\ projectiles' = shots.kept
                       /\ expired' = expired \cup
                            {[age |-> now' - q.born, firstStep |-> q.firstStep,
                              lastStep |-> now' - lastFrameTimeRef] :
                               q \in shots.gone}
                       /\ lastFrameTimeRef' = now'
                       /\ lastSave' = ShipState(s1, camera)
                       /\ radarLog' =
                            RadarLogged(radarLog, PlanetInRange(s1),
                                        PulseCreated(radar.pulses), t)
                  ELSE /\ pending' = pending \o (IF done THEN << LandedUpdater >>
                                                 ELSE << >>)
                       /\ UNCHANGED << ship, shipTicks, trailPoints,
                                       lastTrailTime, radarPulses,
                                       lastRadarPulseTime, projectiles,
                                       expired, lastFrameTimeRef >>
                       /\ UNCHANGED << lastSave, radarLog >>
             \* the draw pass reads the objects as they are now
             /\ drawShip' = IF landing
                              THEN [ship' EXCEPT
                                      !.x = LandingShipPosition(loopLanding, now').x,
                                      !.y = LandingShipPosition(loopLanding, now').y]
                              ELSE ship'
             /\ drawCamera' = camera
             /\ drewFrame' = TRUE
             \* landing completion
             /\ IF done
                  THEN /\ isLandingAnimationActive' = FALSE
                       /\ landingAnimationData' = NoLanding
                       /\ planetCalls' = planetCalls + 1
                       /\ currentScreen' = "planet"
                  ELSE UNCHANGED << isLandingAnimationActive,
                                    landingAnimationData, planetCalls,
                                    currentScreen >>
             /\ effectStale' = TRUE
             /\ gameLoopRef' = TRUE
             /\ frameRequests' = frameRequests - 1 + 1
             /\ UNCHANGED << loopScreen, canvasLarge >>
  /\ UNCHANGED << lastShootTime, shootingIntervalRef, intervalTimers,
                  isMousePressed,
                  worldEditing, showLandingModal, showNPCModal, fireCalls,
                  shotTimes, burstStart, burstCalls, burstShots >>
  /\ UNCHANGED << camera, mouseRef, hasMouseMoved, mouseInWindow,
                  isBarrierCollisionEnabled, pointerEvents >>
  /\ UNCHANGED << loopModal, loopInWindow, loopLanding, selectedPlanet,
                  starCamera >>
  /\ UNCHANGED << coordVars, starVars >>
  /\ UNCHANGED << editVars, clickVars, mounted, savedShipState,
                  forceSavedMounted, mountState >>

\* React renders the component and re-runs the loop effect: the queued
\* updaters run, the star renderer receives the camera as props, the cleanup
\* cancels the requested frame and the effect body creates a new closure
\* (lastTime = 0, current state) and requests a frame.
Render ==
  /\ effectStale
  /\ LET g == ApplyPending([ship |-> ship, camera |-> camera], pending, now)
     IN  /\ ship' = g.ship
         /\ camera' = g.camera
         /\ starCamera' = g.camera
  /\ pending' = << >>
  /\ loopModal' = showLandingModal
  /\ loopInWindow' = mouseInWindow
  /\ loopLanding' = IF isLandingAnimationActive THEN landingAnimationData
                    ELSE NoLanding
  /\ effectStale' = FALSE
  /\ lastTime' = 0
  /\ loopScreen' = currentScreen
  /\ gameLoopRef' = TRUE
  /\ frameRequests' = CancelAnimationFrame(frameRequests, gameLoopRef) + 1
  /\ UNCHANGED << currentScreen, frameTimeHistory, refreshRate,
                  refreshRateDetected, frameCounter, canvasLarge, deltaTime,
                  skipFrame, drewFrame, allValid >>
  /\ UNCHANGED << mouseRef, hasMouseMoved, mouseInWindow,
                  isBarrierCollisionEnabled, shipTicks, pointerEvents >>
  /\ UNCHANGED << landingAnimationData, selectedPlanet, planetCalls, drawShip,
                  drawCamera, trailPoints, lastTrailTime,
                  radarPulses, lastRadarPulseTime >>
  /\ UNCHANGED << coordVars, fireVars, starVars >>
  \* the cleanup saves the ship object of the render that created it
  /\ savedShipState' =
       ShipState(OldShipObject([ship |-> ship, camera |-> camera], pending,
                               now), camera')
  /\ forceSavedMounted' = TRUE
  /\ UNCHANGED << editVars, clickVars, mounted, lastSave, mountState,
                  radarLog >>

SpecLanding ==
  /\ InitLanding
  /\ [][
       \/ LandingConfirm
       \/ \E d \in {250 * TimeScale, 500 * TimeScale}, eager \in BOOLEAN :
            GameLoop(d, eager, MaxSceneTicks)
       \/ Render
     ]_vars

(***************************************************************************)
(* A scene on the map: the ship rests near the planet, the pointer is      *)
(* about to move, and refresh-rate detection is one sample short, so that  *)
(* frame skipping sets in after the first ticks.                           *)
(***************************************************************************)

MaxSceneShots == 1              \* cap on the shots of a scene

SpecScene ==
  /\ LET \* SceneSplits: SpaceMap.tsx 1829-1829
         SceneSplits == {30, 51, 59}     \* how many of the 59 samples are 6.95 ms
     IN
     /\ currentScreen = "world"
     /\ loopScreen = "world"
     /\ gameLoopRef = TRUE
     /\ frameRequests = 1
     /\ effectStale = FALSE
     /\ lastTime = 0
     /\ \E a \in SceneSplits :
          frameTimeHistory =
            [v \in AllIntervals |->
               IF v = 695 THEN a
               ELSE IF v = 1667 THEN SampleCount - 1 - a ELSE 0]
     /\ refreshRate = DefaultRefreshRate
     /\ refreshRateDetected = FALSE
     /\ frameCounter = SampleCount
     /\ canvasLarge = TRUE
     /\ deltaTime = DefaultDelta
     /\ skipFrame = FALSE
     /\ drewFrame = TRUE
     /\ allValid = TRUE
     /\ CoordIdle
     /\ FireIdle
     /\ ship = [x |-> PlanetX - 60 * PosScale, y |-> PlanetY, vx |-> 0, vy |-> 0]
     /\ camera = [x |-> ship.x, y |-> ship.y]
     /\ mouseRef = [x |-> 0, y |-> 0]
     /\ hasMouseMoved = FALSE
     /\ mouseInWindow = TRUE
     /\ isBarrierCollisionEnabled = TRUE
     /\ shipTicks = 0
     /\ pointerEvents = 0
     /\ SceneIdle
     /\ StarsIdle
     /\ WorldIdle
  /\ [][
       \/ \E d \in {695}, eager \in BOOLEAN :
            GameLoop(d, eager, SampleCount + MaxSceneTicks)
       \/ Render
       \/ \E p \in PointerPositions : MouseMove(p)
       \/ Click("space", MaxSceneShots)
     ]_vars

(***************************************************************************)
(* The ship trail on a slow device: the ship starts from the spawn point   *)
(* and frame callbacks are far apart.                                      *)
(***************************************************************************)

InitTrail == Init /\ canvasLarge = FALSE

SpecTrail ==
  /\ InitTrail
  /\ [][
       \/ \E d \in {60 * TimeScale, 250 * TimeScale}, eager \in BOOLEAN :
            GameLoop(d, eager, MaxSceneTicks)
       \/ Render
       \/ \E p \in PointerPositions : MouseMove(p)
     ]_vars

(***************************************************************************)
(* A flight on a mobile or a desktop device with frame callbacks 60 ms     *)
(* apart, long enough for the trail to fill up: before the first frame the *)
(* pointer was put 300 units east of the ship at the spawn point, and      *)
(* React commits the updates of each frame before the next one.            *)
(***************************************************************************)
MaxFlightTicks == 27            \* cap on the frame callbacks of a flight

SpecFlight ==
  /\ LET \* handleMouseMove, once, before the first frame
         FlightPointer == [x |-> CanvasWidth \div 2 + 300 * PosScale,
                           y |-> CanvasHeight \div 2]
     IN
     /\ InitLoop
     /\ canvasLarge = FALSE
     /\ CoordIdle
     /\ FireIdle
     /\ ship = [x |-> CENTER_X, y |-> CENTER_Y + 200 * PosScale,
                vx |-> 0, vy |-> 0]
     /\ camera = [x |-> ship.x, y |-> ship.y]
     /\ mouseRef = FlightPointer
     /\ hasMouseMoved = TRUE
     /\ mouseInWindow = TRUE
     /\ isBarrierCollisionEnabled = TRUE
     /\ shipTicks = 0
     /\ pointerEvents = 1
     /\ SceneIdle
     /\ isMobile \in BOOLEAN
     /\ StarsUnmounted
     /\ WorldIdle
  /\ [][
       \* React commits the updates of a frame before the next frame
       \/ \E eager \in BOOLEAN :
            ~effectStale /\ GameLoop(60 * TimeScale, eager, MaxFlightTicks)
       \/ Render
     ]_vars

(***************************************************************************)
(* The WebGL star renderer: FinalWebGLStars (full tier) or                 *)
(* MobileOptimizedWebGLStars (reduced tier).  Both keep the renderer, the  *)
(* star geometry with its material, and the id of the requested animation  *)
(* frame in refs; their effects create and release them.                   *)
(***************************************************************************)
MaxStarFrames == 4              \* cap on the renderer's frames
MaxStarRenders == 3             \* cap on the changes of the camera props

MaxStars == 3000                \* maxStars of the reduced tier

CeilDiv(a, b) == (a + b - 1) \div b

\* variant: the step is rounded down
SampledStars_Floor(n) ==
  LET step == IF n \div MaxStars = 0 THEN 1 ELSE n \div MaxStars
      kept == SelectSeq([i \in 1 .. n |-> i - 1], LAMBDA i : i % step = 0)
  IN  IF n > MaxStars
        THEN SubSeq(kept, 1, Min(Len(kept), MaxStars))
        ELSE [i \in 1 .. n |-> i - 1]

\* sampledStars of the reduced tier for a list of n stars, as indices:
\* stars.filter((_, i) => i % Math.ceil(n / maxStars) === 0).slice(0, maxStars)
SampledStars(n) ==
  LET step == CeilDiv(n, MaxStars)
      kept == SelectSeq([i \in 1 .. n |-> i - 1], LAMBDA i : i % step = 0)
  IN  IF n > MaxStars
        THEN SubSeq(kept, 1, Min(Len(kept), MaxStars))
        ELSE [i \in 1 .. n |-> i - 1]

\* the geometry effect: the points of the previous run are disposed, new
\* ones are created from the sampled stars (reduced tier) or from all stars
StarGeometry(live, created) ==
  IF rendererRef' = "live" /\ starsLoaded'
    THEN [live |-> 1 + (IF live > 0 THEN live - 1 ELSE 0),
          created |-> created + 1,
          drawn |-> IF isMobile THEN SampledStars(starCount)
                    ELSE [i \in 1 .. starCount |-> i - 1]]
    ELSE [live |-> live, created |-> created, drawn |-> drawnStars]

\* The map view mounts the star renderer: the effects run in order
\* (initialisation, geometry, animation loop).
StarMount ==
  /\ starPhase = "unmounted"
  /\ gameLoopRef
  /\ UNCHANGED << isMobile, webglAvailable, starsLoaded, starCount,
                  starRenders >>
  /\ IF webglAvailable
       THEN /\ rendererRef' = "live"
            /\ pointsLive' = StarGeometry(pointsLive, pointsCreated).live
            /\ pointsCreated' = StarGeometry(pointsLive, pointsCreated).created
            /\ drawnStars' = StarGeometry(pointsLive, pointsCreated).drawn
            /\ animationIdRef' = TRUE          \* animate() requests a frame
            /\ starFrames' = starFrames + 1
            /\ starPhase' = "mounted"
            /\ UNCHANGED << errorPropagated, gameLoopRef, frameRequests >>
       ELSE IF isMobile
         THEN \* catch (error) { console.error(...); return; }
              /\ starPhase' = "mounted"
              /\ UNCHANGED << rendererRef, pointsLive, pointsCreated,
                              drawnStars, animationIdRef, starFrames,
                              errorPropagated, gameLoopRef, frameRequests >>
         ELSE \* the constructor's exception leaves the effect; with no
              \* error boundary React unmounts the application, and the
              \* cleanup of the loop effect cancels the requested frame
              /\ errorPropagated' = TRUE
              /\ starPhase' = "crashed"
              /\ gameLoopRef' = FALSE
              /\ frameRequests' =
                   CancelAnimationFrame(frameRequests, gameLoopRef)
              /\ UNCHANGED << rendererRef, pointsLive, pointsCreated,
                              drawnStars, animationIdRef, starFrames >>
  /\ UNCHANGED << currentScreen, loopScreen, effectStale, lastTime,
                  frameTimeHistory, refreshRate, refreshRateDetected,
                  frameCounter, canvasLarge, deltaTime, skipFrame, drewFrame,
                  allValid >>
  /\ UNCHANGED << coordVars, fireVars, shipVars, sceneVars >>
  /\ UNCHANGED worldVars

\* the star list is filled after the mount: the geometry effect runs again
\* (and, in the reduced tier, the animation effect)
StarsArrive ==
  /\ starPhase = "mounted"
  /\ ~starsLoaded
  /\ starsLoaded' = TRUE
  /\ UNCHANGED << isMobile, webglAvailable, starCount, starPhase, rendererRef,
                  starRenders, errorPropagated >>
  /\ pointsLive' = StarGeometry(pointsLive, pointsCreated).live
  /\ pointsCreated' = StarGeometry(pointsLive, pointsCreated).created
  /\ drawnStars' = StarGeometry(pointsLive, pointsCreated).drawn
  /\ IF isMobile /\ rendererRef = "live"
       THEN animationIdRef' = TRUE /\ starFrames' = starFrames + 1
       ELSE UNCHANGED << animationIdRef, starFrames >>
  /\ UNCHANGED << loopVars, coordVars, fireVars, shipVars, sceneVars >>
  /\ UNCHANGED worldVars

\* the map view renders with a new camera position c: the animation effect
\* is cleaned up and run again; in the reduced tier the geometry effect runs
\* again as well
StarCameraChange(c) ==
  /\ starPhase = "mounted"
  /\ starRenders < MaxStarRenders
  /\ c # starCamera
  /\ starCamera' = c
  /\ starRenders' = starRenders + 1
  /\ UNCHANGED << isMobile, webglAvailable, starsLoaded, starCount, starPhase,
                  rendererRef, errorPropagated >>
  /\ IF isMobile
       THEN /\ pointsLive' = StarGeometry(pointsLive, pointsCreated).live
            /\ pointsCreated' = StarGeometry(pointsLive, pointsCreated).created
            /\ drawnStars' = StarGeometry(pointsLive, pointsCreated).drawn
       ELSE UNCHANGED << pointsLive, pointsCreated, drawnStars >>
  /\ IF rendererRef = "live"
       THEN animationIdRef' = TRUE /\ starFrames' = starFrames + 1
       ELSE UNCHANGED << animationIdRef, starFrames >>
  /\ UNCHANGED << loopModal, loopInWindow, loopLanding, pending,
                  landingAnimationData, selectedPlanet, planetCalls, drawShip,
                  drawCamera, trailPoints, lastTrailTime, radarPulses,
                  lastRadarPulseTime >>
  /\ UNCHANGED << loopVars, coordVars, fireVars, shipVars >>
  /\ UNCHANGED worldVars

\* animate: the requested animation frame of the renderer
StarFrame ==
  /\ starPhase = "mounted"
  /\ animationIdRef
  /\ starFrames < MaxStarFrames
  /\ starFrames' = starFrames + 1
  /\ animationIdRef' = TRUE
  /\ UNCHANGED << isMobile, webglAvailable, starsLoaded, starCount,
                  drawnStars, starPhase, rendererRef, pointsLive,
                  pointsCreated, starRenders, errorPropagated >>
  /\ UNCHANGED << loopVars, coordVars, fireVars, shipVars, sceneVars >>
  /\ UNCHANGED worldVars

\* the map view is torn down: the cleanups of the renderer's effects run
StarUnmount ==
  /\ starPhase = "mounted"
  /\ starPhase' = "torn_down"
  /\ animationIdRef' = FALSE            \* cancelAnimationFrame
  /\ rendererRef' = IF rendererRef = "live" THEN "disposed" ELSE rendererRef
  /\ UNCHANGED << isMobile, webglAvailable, starsLoaded, starCount,
                  drawnStars, pointsLive, pointsCreated, starFrames,
                  starRenders, errorPropagated >>
  /\ UNCHANGED << loopVars, coordVars, fireVars, shipVars, sceneVars >>
  /\ UNCHANGED worldVars

SpecStars ==
  /\ LET \* StarCounts: SpaceMap.tsx 968-1236
         \* lengths of the star list: around maxStars and its multiples, and the
         \* 5850 stars the map view generates on a mobile device
         StarCounts == {1, MaxStars - 1, MaxStars, MaxStars + 1, 5850, 2 * MaxStars + 1}
     IN
     /\ InitLoop
     /\ canvasLarge = FALSE
     /\ CoordIdle
     /\ FireIdle
     /\ ShipIdle
     /\ SceneIdle
     /\ isMobile \in BOOLEAN
     /\ webglAvailable \in BOOLEAN
     /\ starsLoaded \in BOOLEAN
     /\ starCount \in StarCounts
     /\ drawnStars = << >>
     /\ starPhase = "unmounted"
     /\ rendererRef = "none"
     /\ pointsLive = 0
     /\ pointsCreated = 0
     /\ animationIdRef = FALSE
     /\ starFrames = 0
     /\ starRenders = 0
     /\ errorPropagated = FALSE
     /\ WorldIdle
  /\ [][
       \/ StarMount
       \/ StarsArrive
       \* the camera positions the map view passes to the renderer
       \/ \E c \in { [x |-> CENTER_X + i * PosScale,
                      y |-> CENTER_Y + 200 * PosScale] :
                       i \in 0 .. MaxStarRenders } :
            StarCameraChange(c)
       \/ StarFrame
       \/ StarUnmount
     ]_vars

(***************************************************************************)
(* World editing.  The admin controls of the map: the edit-mode button,    *)
(* selection and drag of a planet by click and pointer, and the size,      *)
(* rotation and landing-area sliders of the selected planet.  Each control *)
(* changes the planet in planetsRef at once and saves it through           *)
(* updateWorldPosition, the sliders and the drag after a timeout.  planet  *)
(* is the first planet of planetsRef, selectedWorldId says whether it is   *)
(* the selected one, lastWorldUpdate is the argument of the last call of   *)
(* updateWorldPosition.                                                    *)
(***************************************************************************)
SIZE_MIN == 20                  \* min of the size slider

RADIUS_MIN == 50                \* min of the landing-area slider

RADIUS_FLOOR == 90              \* Math.max(90, newSize + 30)

RADIUS_MARGIN == 30

\* the control panel of the selected planet is rendered
WorldControlsShown == isAdmin /\ isWorldEditMode /\ selectedWorldId

MaxEditEvents == 4              \* cap on the inputs to the admin controls

\* an input to the admin controls
EditInput ==
  /\ mounted
  /\ editEvents < MaxEditEvents
  /\ editEvents' = editEvents + 1

\* what the handlers of the admin controls leave alone
EditFrame ==
  /\ UNCHANGED << isAdmin, planetImage, clickVars, saveVars, radarLog >>
  /\ UNCHANGED << now, lastShootTime, projectiles, shootingIntervalRef,
                  intervalTimers,
                  isMousePressed, isLandingAnimationActive, showLandingModal,
                  showNPCModal, lastFrameTimeRef, fireCalls, shotTimes,
                  burstStart, burstCalls, burstShots, expired >>
  /\ UNCHANGED << loopVars, coordVars, shipVars, sceneVars, starVars >>

\* onClick of the edit-mode button
ToggleEditMode ==
  LET \* AdminControlsShown: SpaceMap.tsx 2985-2985
      \* the edit-mode and barrier buttons are rendered for user?.isAdmin only
      AdminControlsShown == isAdmin
  IN
  /\ EditInput
  /\ AdminControlsShown
  /\ isWorldEditMode' = ~isWorldEditMode
  /\ worldEditing' = (isAdmin /\ isWorldEditMode')
  /\ IF isWorldEditMode
       THEN selectedWorldId' = FALSE /\ isDragging' = FALSE
       ELSE UNCHANGED << selectedWorldId, isDragging >>
  /\ worldTimeouts' =
       SelectionCleanup(selectedWorldId, selectedWorldId').timeouts
  /\ lastWorldUpdate' =
       SelectionCleanup(selectedWorldId, selectedWorldId').update
  /\ worldStore' = StoreMerge(worldStore, lastWorldUpdate')
  /\ UNCHANGED << dragOffset, planet >>
  /\ EditFrame

\* the keydown handler, for the key Escape
KeyEscape ==
  /\ EditInput
  /\ isAdmin /\ isWorldEditMode
  /\ selectedWorldId' = FALSE
  /\ isDragging' = FALSE
  /\ dragOffset' = [x |-> 0, y |-> 0]
  /\ worldTimeouts' =
       SelectionCleanup(selectedWorldId, selectedWorldId').timeouts
  /\ lastWorldUpdate' =
       SelectionCleanup(selectedWorldId, selectedWorldId').update
  /\ worldStore' = StoreMerge(worldStore, lastWorldUpdate')
  /\ UNCHANGED << isWorldEditMode, worldEditing, planet >>
  /\ EditFrame

\* onChange of the size slider
SizeChange(newSize) ==
  LET \* Max: SpaceMap.tsx 3067-3067
      Max(a, b) == IF a > b THEN a ELSE b
  IN
  /\ EditInput
  /\ WorldControlsShown
  /\ planet' = [planet EXCEPT
                  !.size = newSize,
                  !.interactionRadius =
                     Max(RADIUS_FLOOR, newSize + RADIUS_MARGIN)]
  /\ worldTimeouts' =
       [worldTimeouts EXCEPT !.size = [called |-> TRUE, size |-> newSize]]
  /\ UNCHANGED << isWorldEditMode, worldEditing, selectedWorldId, isDragging,
                  dragOffset, lastWorldUpdate, worldStore >>
  /\ EditFrame

\* onChange of the rotation slider
RotationChange(newRotation) ==
  /\ EditInput
  /\ WorldControlsShown
  /\ planet' = [planet EXCEPT !.rotation = newRotation]
  /\ worldTimeouts' =
       [worldTimeouts EXCEPT
          !.rotation = [called |-> TRUE, rotation |-> newRotation]]
  /\ UNCHANGED << isWorldEditMode, worldEditing, selectedWorldId, isDragging,
                  dragOffset, lastWorldUpdate, worldStore >>
  /\ EditFrame

\* onChange of the landing-area slider
RadiusChange(newRadius) ==
  /\ EditInput
  /\ WorldControlsShown
  /\ planet' = [planet EXCEPT !.interactionRadius = newRadius]
  /\ worldTimeouts' =
       [worldTimeouts EXCEPT
          !.interaction = [called |-> TRUE, interactionRadius |-> newRadius]]
  /\ UNCHANGED << isWorldEditMode, worldEditing, selectedWorldId, isDragging,
                  dragOffset, lastWorldUpdate, worldStore >>
  /\ EditFrame

\* onClick of the button "Mover Mundo" (disabled while dragging)
DragButton ==
  /\ EditInput
  /\ WorldControlsShown
  /\ ~isDragging
  /\ isDragging' = TRUE
  /\ dragOffset' = [x |-> 0, y |-> 0]
  /\ UNCHANGED << isWorldEditMode, worldEditing, selectedWorldId, planet,
                  worldTimeouts, lastWorldUpdate, worldStore >>
  /\ EditFrame

\* onClick of the button "Confirmar" (rendered while dragging)
ConfirmButton ==
  /\ EditInput
  /\ WorldControlsShown
  /\ isDragging
  /\ lastWorldUpdate' = PositionUpdate(planet)
  /\ worldStore' = StoreMerge(worldStore, lastWorldUpdate')
  /\ isDragging' = FALSE
  /\ dragOffset' = [x |-> 0, y |-> 0]
  /\ UNCHANGED << isWorldEditMode, worldEditing, selectedWorldId, planet,
                  worldTimeouts >>
  /\ EditFrame

\* the callback of one of the four save timers
TimeoutFire(kind) ==
  /\ mounted
  /\ worldTimeouts[kind].called
  /\ lastWorldUpdate' = worldTimeouts[kind]
  /\ worldStore' = StoreMerge(worldStore, lastWorldUpdate')
  /\ worldTimeouts' = [worldTimeouts EXCEPT ![kind] = NoUpdate]
  /\ UNCHANGED << isWorldEditMode, worldEditing, selectedWorldId, isDragging,
                  dragOffset, planet, editEvents >>
  /\ EditFrame

\* handleLandingCancel
LandingCancel ==
  /\ mounted
  /\ showLandingModal
  /\ showLandingModal' = FALSE
  /\ selectedPlanet' = FALSE
  /\ hasMouseMoved' = TRUE
  /\ mouseInWindow' = TRUE
  /\ effectStale' = TRUE
  /\ UNCHANGED << currentScreen, loopScreen, gameLoopRef, frameRequests,
                  lastTime,
                  frameTimeHistory, refreshRate, refreshRateDetected,
                  frameCounter, canvasLarge, deltaTime, skipFrame, drewFrame,
                  allValid >>
  /\ UNCHANGED << now, lastShootTime, projectiles, shootingIntervalRef,
                  intervalTimers,
                  isMousePressed, isLandingAnimationActive, worldEditing,
                  showNPCModal, lastFrameTimeRef, fireCalls, shotTimes,
                  burstStart, burstCalls, burstShots, expired >>
  /\ UNCHANGED << ship, camera, mouseRef, isBarrierCollisionEnabled,
                  shipTicks, pointerEvents >>
  /\ UNCHANGED << loopModal, loopInWindow, loopLanding, pending,
                  landingAnimationData, planetCalls, drawShip, drawCamera,
                  starCamera, trailPoints, lastTrailTime, radarPulses,
                  lastRadarPulseTime >>
  /\ UNCHANGED << coordVars, starVars, worldVars >>

\* onClose of the NPC modal
CloseNPCModal ==
  /\ mounted
  /\ showNPCModal
  /\ showNPCModal' = FALSE
  /\ UNCHANGED << now, lastShootTime, projectiles, shootingIntervalRef,
                  intervalTimers,
                  isMousePressed, isLandingAnimationActive, worldEditing,
                  showLandingModal, lastFrameTimeRef, fireCalls, shotTimes,
                  burstStart, burstCalls, burstShots, expired >>
  /\ UNCHANGED << loopVars, coordVars, shipVars, sceneVars, starVars,
                  worldVars >>

(***************************************************************************)
(* Mount and unmount of the map view.  Unmounting runs the cleanups of the *)
(* effects: the loop effect cancels the requested frame and saves the ship *)
(* with forceSaveShipState, the selection effect clears the save timers    *)
(* and saves the selected planet, the firing effect clears the auto-fire   *)
(* interval.  Mounting creates the component state anew; the persistence   *)
(* bridge returns what forceSaveShipState stored last, and the planets     *)
(* come back from the store as they were saved.                            *)
(***************************************************************************)
MaxMounts == 2                  \* cap on the mounts of the view

\* the view is unmounted
Unmount ==
  /\ mounted
  /\ mounted' = FALSE
  /\ gameLoopRef' = FALSE
  /\ frameRequests' = CancelAnimationFrame(frameRequests, gameLoopRef)
  /\ effectStale' = FALSE
  /\ pending' = << >>
  /\ shootingIntervalRef' = 0
  /\ intervalTimers' =
       ClearShootingInterval(intervalTimers, shootingIntervalRef)
  /\ savedShipState' = ShipState(ship, camera)
  /\ worldTimeouts' = NoTimeouts
  /\ lastWorldUpdate' =
       IF selectedWorldId THEN FullUpdate(planet) ELSE lastWorldUpdate
  /\ worldStore' = StoreMerge(worldStore, lastWorldUpdate')
  /\ UNCHANGED << currentScreen, loopScreen, lastTime, frameTimeHistory,
                  refreshRate, refreshRateDetected, frameCounter, canvasLarge,
                  deltaTime, skipFrame, drewFrame, allValid >>
  /\ UNCHANGED << now, lastShootTime, projectiles, isMousePressed,
                  isLandingAnimationActive, worldEditing, showLandingModal,
                  showNPCModal, lastFrameTimeRef, fireCalls, shotTimes,
                  burstStart, burstCalls, burstShots, expired >>
  /\ UNCHANGED << loopModal, loopInWindow, loopLanding, landingAnimationData,
                  selectedPlanet, planetCalls, drawShip, drawCamera,
                  starCamera, trailPoints, lastTrailTime, radarPulses,
                  lastRadarPulseTime >>
  /\ UNCHANGED << isAdmin, isWorldEditMode, selectedWorldId, isDragging,
                  dragOffset, planet, planetImage, editEvents, clickVars,
                  lastSave, forceSavedMounted, mountState, radarLog >>
  /\ UNCHANGED << coordVars, shipVars, starVars >>

\* variant: the persisted state is ignored
InitialGameState_Spawn(saved) ==
  [ship   |-> [x |-> CENTER_X, y |-> CENTER_Y + 200 * PosScale, angle |-> 0,
               vx |-> 0, vy |-> 0],
   camera |-> [x |-> CENTER_X, y |-> CENTER_Y + 200 * PosScale]]

\* getInitialGameState, for what getShipState() returns
InitialGameState(saved) ==
  IF saved.saved
    THEN [ship   |-> [x |-> saved.x, y |-> saved.y, angle |-> 0,
                      vx |-> 0, vy |-> 0],
          camera |-> [x |-> saved.cameraX, y |-> saved.cameraY]]
    ELSE [ship   |-> [x |-> CENTER_X, y |-> CENTER_Y + 200 * PosScale,
                      angle |-> 0, vx |-> 0, vy |-> 0],
          camera |-> [x |-> CENTER_X, y |-> CENTER_Y + 200 * PosScale]]

\* the view is mounted: useState(getInitialGameState), the mount effect, and
\* the initial values of the other state and refs
Mount ==
  LET \* MountReset: SpaceMap.tsx 267-278
      \* the updater of the mount effect
      MountReset(g) ==
        [g EXCEPT !.ship = [@ EXCEPT !.vx = 0, !.vy = 0, !.angle = 0]]
  IN
  /\ ~mounted
  /\ mountState.count < MaxMounts
  /\ mounted' = TRUE
  /\ LET g == MountReset(InitialGameState(savedShipState))
     IN  /\ mountState' = [count |-> mountState.count + 1, state |-> g]
         /\ ship' = [x |-> g.ship.x, y |-> g.ship.y,
                     vx |-> g.ship.vx, vy |-> g.ship.vy]
         /\ camera' = g.camera
  /\ drawShip' = ship'
  /\ drawCamera' = camera'
  /\ starCamera' = camera'
  \* the loop effect
  /\ currentScreen' = "world"
  /\ loopScreen' = "world"
  /\ gameLoopRef' = TRUE
  /\ frameRequests' = frameRequests + 1
  /\ effectStale' = FALSE
  /\ lastTime' = 0
  /\ frameTimeHistory' = [v \in AllIntervals |-> 0]
  /\ refreshRate' = DefaultRefreshRate
  /\ refreshRateDetected' = FALSE
  /\ frameCounter' = 0
  /\ deltaTime' = 0
  /\ skipFrame' = FALSE
  /\ drewFrame' = FALSE
  /\ allValid' = TRUE
  \* firing and dialogs
  /\ lastShootTime' = 0
  /\ projectiles' = << >>
  /\ shootingIntervalRef' = 0
  /\ UNCHANGED intervalTimers
  /\ isMousePressed' = FALSE
  /\ isLandingAnimationActive' = FALSE
  /\ showLandingModal' = FALSE
  /\ showNPCModal' = FALSE
  /\ lastFrameTimeRef' = now
  \* pointer
  /\ mouseRef' = [x |-> 0, y |-> 0]
  /\ hasMouseMoved' = FALSE
  /\ pointerMoved' = FALSE
  /\ mouseInWindow' = TRUE
  \* scene
  /\ loopModal' = FALSE
  /\ loopInWindow' = TRUE
  /\ loopLanding' = NoLanding
  /\ pending' = << >>
  /\ landingAnimationData' = NoLanding
  /\ selectedPlanet' = FALSE
  /\ trailPoints' = << >>
  /\ lastTrailTime' = 0
  /\ radarPulses' = << >>
  /\ lastRadarPulseTime' = -1
  /\ radarLog' = NoRadarLog
  \* world editing; the edit mode and the barrier switch are held by the
  \* game store
  /\ selectedWorldId' = FALSE
  /\ isDragging' = FALSE
  /\ dragOffset' = [x |-> 0, y |-> 0]
  /\ worldTimeouts' = NoTimeouts
  /\ landingClick' = NoClick
  /\ UNCHANGED << canvasLarge, now, fireCalls, shotTimes, burstStart,
                  burstCalls, burstShots, expired, shipTicks, pointerEvents,
                  planetCalls >>
  /\ UNCHANGED << isAdmin, isWorldEditMode, worldEditing,
                  isBarrierCollisionEnabled, planet, planetImage,
                  lastWorldUpdate, worldStore, editEvents, landingPlanet,
                  savedShipState,
                  lastSave, forceSavedMounted >>
  /\ UNCHANGED << coordVars, starVars >>

(***************************************************************************)
(* Sessions: the view is mounted, the ship flies after the pointer, the    *)
(* view is unmounted and mounted again.  Nothing is persisted before the   *)
(* first mount.                                                            *)
(***************************************************************************)

MaxSessionTicks == 3            \* cap on the frame callbacks of a mount

SpecSession ==
  /\ LET \* NoMount: SpaceMap.tsx 233-263
         \* before the first mount
         NoMount == [count |-> 0, state |-> InitialGameState(NoShipState)]
     IN
     /\ LoopIdle /\ CoordIdle /\ FireIdle /\ ShipIdle /\ SceneIdle /\ StarsIdle
     /\ isAdmin = FALSE
     /\ isWorldEditMode = FALSE
     /\ EditIdle
     /\ ClickIdle
     /\ mounted = FALSE
     /\ savedShipState = NoShipState
     /\ lastSave = NoShipState
     /\ forceSavedMounted = FALSE
     /\ mountState = NoMount
     /\ radarLog = NoRadarLog
  /\ [][
       \/ Mount
       \/ Unmount
       \/ /\ mounted
          /\ \E d \in {250 * TimeScale}, eager \in BOOLEAN :
               GameLoop(d, eager, MaxSessionTicks)
       \/ mounted /\ Render
       \/ mounted /\ \E p \in PointerPositions : MouseMove(p)
     ]_vars

(***************************************************************************)
(* A session on the map next to the planet, of an admin or of another      *)
(* user: the ship rests inside the planet's interaction radius, where the  *)
(* persisted ship state put it.                                            *)
(***************************************************************************)

\* click positions on the canvas: the centre of the planet, 30 to the lower
\* right of it, 30 to the upper left of it, and a point far from it
ClickPoints ==
  { [x |-> CanvasWidth \div 2 + 60 * PosScale, y |-> CanvasHeight \div 2],
    [x |-> CanvasWidth \div 2 + 90 * PosScale,
     y |-> CanvasHeight \div 2 + 30 * PosScale],
    [x |-> CanvasWidth \div 2 + 30 * PosScale,
     y |-> CanvasHeight \div 2 - 30 * PosScale],
    [x |-> 100 * PosScale, y |-> 500 * PosScale] }

MaxEditShots == 1               \* cap on the shots of an editing session

\* the session starts with one of the images for the planet
NearPlanet(images) ==
  /\ LoopIdle
  /\ CoordIdle
  \* the game store holds the edit mode, whoever switched it on
  /\ isAdmin \in BOOLEAN
  /\ isWorldEditMode \in BOOLEAN
  /\ now = 0
  /\ lastShootTime = 0
  /\ projectiles = << >>
  /\ shootingIntervalRef = 0
  /\ intervalTimers = 0
  /\ isMousePressed = FALSE
  /\ isLandingAnimationActive = FALSE
  /\ worldEditing = (isAdmin /\ isWorldEditMode)
  /\ showLandingModal = FALSE
  /\ showNPCModal = FALSE
  /\ lastFrameTimeRef = 0
  /\ fireCalls = 0
  /\ shotTimes = << >>
  /\ burstStart = -1
  /\ burstCalls = 0
  /\ burstShots = 0
  /\ expired = {}
  /\ ship = [x |-> PlanetX - 60 * PosScale, y |-> PlanetY, vx |-> 0, vy |-> 0]
  /\ camera = [x |-> ship.x, y |-> ship.y]
  /\ mouseRef = [x |-> 0, y |-> 0]
  /\ hasMouseMoved = FALSE
  /\ mouseInWindow = TRUE
  /\ isBarrierCollisionEnabled = TRUE
  /\ shipTicks = 0
  /\ pointerEvents = 0
  /\ SceneIdle
  /\ StarsIdle
  /\ selectedWorldId = FALSE
  /\ isDragging = FALSE
  /\ dragOffset = [x |-> 0, y |-> 0]
  /\ planet = DefaultPlanet
  /\ planetImage \in images
  /\ worldTimeouts = NoTimeouts
  /\ lastWorldUpdate = NoUpdate
  /\ worldStore = planet
  /\ editEvents = 0
  /\ ClickIdle
  /\ SaveIdle
  /\ radarLog = NoRadarLog

\* the handlers of SpaceMap while it is mounted, and its unmount
SpecEdit ==
  /\ NearPlanet({NoImage})
  /\ [][
       \/ mounted /\ ToggleEditMode
       \/ mounted /\ KeyEscape
       \/ \E v \in {SIZE_MIN, 200} : mounted /\ SizeChange(v)
       \/ \E v \in {16} : mounted /\ RotationChange(v)
       \/ \E v \in {RADIUS_MIN, 350} : mounted /\ RadiusChange(v)
       \/ mounted /\ DragButton
       \/ mounted /\ ConfirmButton
       \/ \E kind \in {"drag", "size", "rotation", "interaction"} :
            mounted /\ TimeoutFire(kind)
       \/ \E c \in ClickPoints : mounted /\ ClickAt(c, FALSE, MaxEditShots)
       \/ \E p \in PointerPositions : mounted /\ MouseMove(p)
       \/ mounted /\ MouseUp
       \/ Unmount
     ]_vars

(***************************************************************************)
(* An admin at the eastern edge of the world: the persisted ship state put *)
(* the ship 30 units from the edge, and the store holds the planet 60      *)
(* units to the west of the ship.  The admin edits the planet, leaves the  *)
(* edit mode and lands.                                                    *)
(***************************************************************************)

\* canvas positions of the pointer: on the planet, and 60 to the right of
\* the ship
EdgePoints ==
  { [x |-> CanvasWidth \div 2 - 60 * PosScale, y |-> CanvasHeight \div 2],
    [x |-> CanvasWidth \div 2 + 60 * PosScale, y |-> CanvasHeight \div 2] }

MaxWorldTicks == 2              \* cap on the frame callbacks

MaxWorldShots == 1              \* cap on the shots

SpecWorld ==
  /\ LET \* EdgeShip: SpaceMap.tsx 233-263
         EdgeShip == [x |-> WorldExtent - 30 * PosScale, y |-> CENTER_Y]
         \* EdgePlanet: SpaceMap.tsx 1238-1284
         EdgePlanet ==
           [DefaultPlanet EXCEPT !.x = EdgeShip.x - 60 * PosScale, !.y = EdgeShip.y]
     IN
     /\ InitLoop
     /\ canvasLarge = FALSE
     /\ CoordIdle
     /\ isAdmin = TRUE
     /\ isWorldEditMode \in BOOLEAN
     /\ now = 0
     /\ lastShootTime = 0
     /\ projectiles = << >>
     /\ shootingIntervalRef = 0
     /\ intervalTimers = 0
     /\ isMousePressed = FALSE
     /\ isLandingAnimationActive = FALSE
     /\ worldEditing = isWorldEditMode
     /\ showLandingModal = FALSE
     /\ showNPCModal = FALSE
     /\ lastFrameTimeRef = 0
     /\ fireCalls = 0
     /\ shotTimes = << >>
     /\ burstStart = -1
     /\ burstCalls = 0
     /\ burstShots = 0
     /\ expired = {}
     /\ ship = [x |-> EdgeShip.x, y |-> EdgeShip.y, vx |-> 0, vy |-> 0]
     /\ camera = [x |-> ship.x, y |-> ship.y]
     /\ mouseRef = [x |-> 0, y |-> 0]
     /\ hasMouseMoved = FALSE
     /\ mouseInWindow = TRUE
     /\ isBarrierCollisionEnabled = FALSE
     /\ shipTicks = 0
     /\ pointerEvents = 0
     /\ SceneIdle
     /\ StarsIdle
     /\ selectedWorldId = FALSE
     /\ isDragging = FALSE
     /\ dragOffset = [x |-> 0, y |-> 0]
     /\ planet = EdgePlanet
     /\ planetImage = NoImage
     /\ worldTimeouts = NoTimeouts
     /\ lastWorldUpdate = NoUpdate
     /\ worldStore = planet
     /\ editEvents = 0
     /\ landingClick = NoClick
     /\ landingPlanet = [x |-> planet.x, y |-> planet.y]
     /\ pointerMoved = FALSE
     /\ SaveIdle
     /\ radarLog = NoRadarLog
  /\ [][
       \/ ToggleEditMode
       \/ DragButton
       \/ \E c \in EdgePoints : ClickAt(c, FALSE, MaxWorldShots)
       \/ \E p \in EdgePoints : MouseMove(p)
       \/ MouseUp
       \/ LandingConfirm
       \/ \E d \in {750 * TimeScale}, eager \in BOOLEAN :
            GameLoop(d, eager, MaxWorldTicks)
       \/ Render
     ]_vars

(***************************************************************************)
(* Clicks on the map next to the planet, outside world editing: the planet *)
(* image is loaded or not, an NPC ship is under the click or not.          *)
(***************************************************************************)
MaxClickShots == 1              \* cap on the shots of the clicks

InitClick ==
  LET \* PlanetImages: SpaceMap.tsx 1350-1356
      PlanetImages ==
        LET \* CornerImage: SpaceMap.tsx 1350-1356
            \* an image that is opaque in its lower right quadrant only
            CornerImage ==
              LET \* ALPHA_OPAQUE: SpaceMap.tsx 444-447
                  ALPHA_OPAQUE == 256 - 1           \* alpha of an opaque pixel
              IN
              [loaded |-> TRUE,
               alpha  |-> [q \in Quadrants |-> IF q = << 1, 1 >> THEN ALPHA_OPAQUE ELSE 0]]
        IN
                      {NoImage, CornerImage}
  IN
             NearPlanet(PlanetImages)

ClickHandlers ==
  \/ \E c \in ClickPoints, onNpc \in BOOLEAN : ClickAt(c, onNpc, MaxClickShots)
  \/ \E p \in PointerPositions : MouseMove(p)
  \/ MouseLeave
  \/ LandingConfirm
  \/ LandingCancel
  \/ CloseNPCModal

SpecClick ==
  /\ InitClick
  /\ [][
       \/ mounted /\ ClickHandlers
       \/ Unmount
     ]_vars

(***************************************************************************)
(* Pointer thrust next to the planet: the ship section of gameLoop runs    *)
(* between the clicks and the callbacks of the dialogs.                    *)
(***************************************************************************)
MaxThrustTicks == 3             \* cap on the ticks between the clicks

SpecThrust ==
  /\ InitClick
  /\ [][
       \/ mounted /\ ClickHandlers
       \/ mounted /\ MouseEnter
       \/ mounted /\ shipTicks < MaxThrustTicks /\ TickShip
     ]_vars

(***************************************************************************)
(* The camera after a restore at the seam of the world: an admin who had   *)
(* switched the barrier off flew to the seam; the saved state holds the    *)
(* ship at rest and the camera up to 40 units away from it, on the same or *)
(* on the other side of the seam.                                          *)
(***************************************************************************)
SpecCamera ==
  /\ LET \* saved ship x (SpaceMap.tsx 233-243): either side of the seam, center
         SeamShipX == {5 * PosScale, WorldExtent - 5 * PosScale, CENTER_X}
         \* saved cameraX - x (SpaceMap.tsx 244-247)
         SeamLag   == {-(40 * PosScale), 40 * PosScale}
     IN
     /\ LoopIdle
     /\ CoordIdle
     /\ FireIdle
     /\ \E x \in SeamShipX, lag \in SeamLag :
          /\ ship = [x |-> x, y |-> 3 * PosScale, vx |-> 0, vy |-> 0]
          /\ camera = [x |-> NormalizeCoord(x + lag),
                       y |-> WorldExtent - 20 * PosScale]
     /\ mouseRef = [x |-> 0, y |-> 0]
     /\ hasMouseMoved = FALSE
     /\ mouseInWindow = TRUE
     /\ isBarrierCollisionEnabled = FALSE
     /\ shipTicks = 0
     /\ pointerEvents = 0
     /\ SceneIdle
     /\ StarsIdle
     /\ isAdmin = TRUE
     /\ isWorldEditMode = FALSE
     /\ MapIdle
  /\ [][
       \/ TickShip
       \/ \E p \in PointerPositions : MouseMove(p)
     ]_vars

(***************************************************************************)
(* Presses and clicks at the pointer next to the planet: the button goes   *)
(* down and up where the pointer is, and the click that the browser then   *)
(* dispatches is made at that position.  The auto-fire interval runs while *)
(* the button is down; the pointer may leave the canvas and the view may   *)
(* be unmounted.  A timer of the browser fires whether or not the view is  *)
(* mounted.                                                                *)
(***************************************************************************)
MaxPressCalls == 2              \* cap on the shootProjectile calls
MaxPressTime == 333             \* cap on now, ms

SpecPress ==
  /\ InitClick
  /\ [][
       \/ \E p \in ClickPoints : mounted /\ MouseMove(p)
       \/ mounted /\ hasMouseMoved /\ MouseDown(MaxPressCalls)
       \/ mounted /\ MouseDownIgnored
       \/ mounted /\ MouseUp
       \/ mounted /\ hasMouseMoved /\ ClickAt(mouseRef, FALSE, MaxPressCalls)
       \/ mounted /\ LandingCancel
       \/ mounted /\ MouseLeave
       \/ mounted /\ MouseEnter
       \/ TimerFire(MaxPressCalls)
       \/ \E s \in {333} : Advance(s, MaxPressTime)
       \/ Unmount
     ]_vars

(***************************************************************************)
(* The map view stays mounted while the screen controller leaves the map   *)
(* screen and returns to it.  The host delivers a requested frame and      *)
(* React re-runs an effect whose dependencies have changed.                *)
(***************************************************************************)
\* The screen controller returns to the map screen (store update; the loop
\* effect does not depend on currentScreen, so it is not run again).
ReturnWorld ==
  /\ currentScreen = "planet"
  /\ currentScreen' = "world"
  /\ UNCHANGED << loopScreen, gameLoopRef, frameRequests, effectStale,
                  lastTime, frameTimeHistory, refreshRate,
                  refreshRateDetected, frameCounter, canvasLarge, deltaTime,
                  skipFrame, drewFrame, allValid >>
  /\ UNCHANGED << coordVars, fireVars, shipVars >>
  /\ UNCHANGED sceneVars
  /\ UNCHANGED starVars
  /\ UNCHANGED worldVars

SpecReturn ==
  /\ Init
  /\ [][
       \/ \E d \in {1667} : Tick(d)
       \/ EffectRerun
       \/ LeaveWorld
       \/ ReturnWorld
     ]_vars
  /\ WF_vars(\E d \in {1667} : Tick(d))
  /\ WF_vars(EffectRerun)


(***************************************************************************)
(* The editing session with its save timers running: a timer that is       *)
(* pending while the view is mounted fires in the end.                     *)
(***************************************************************************)
SpecSave ==
  /\ SpecEdit
  /\ \A kind \in {"drag", "size", "rotation", "interaction"} :
       WF_vars(mounted /\ TimeoutFire(kind))

(***************************************************************************)
(* Properties of the ship section                                          *)
(***************************************************************************)
BarrierEpsilon == PosScale \div 4   \* a quarter of a world unit

\* C1: with barrier collision enabled and the ship starting inside the barrier,
\* the ship's distance from the world center never exceeds BARRIER_RADIUS by
\* more than BarrierEpsilon, whatever the pointer does.
C1_Original ==
  LET \* DistanceFromCenter: SpaceMap.tsx 1943-1945
      DistanceFromCenter == Hypot(ship.x - CENTER_X, ship.y - CENTER_Y)
  IN
  isBarrierCollisionEnabled
    => DistanceFromCenter <= BARRIER_RADIUS * PosScale + BarrierEpsilon

(***************************************************************************)
(* Properties of firing and projectiles                                    *)
(***************************************************************************)

\* C2: any two projectiles spawned by shootProjectile are at least 333 ms
\* apart, whichever of mousedown, click and the auto-fire timer made the calls;
\* the calls of a 100 ms burst that starts with no shot in the preceding
\* 333 ms spawn exactly one projectile, however many they are (10 included).
C2_FireRate ==
  /\ \A i \in 1 .. Len(shotTimes) : \A j \in 1 .. Len(shotTimes) :
        i < j => shotTimes[j] - shotTimes[i] >= SHOOT_COOLDOWN
  /\ Len(projectiles) = Len(shotTimes)
  /\ (burstCalls >= 1 => burstShots = 1)

\* ten calls spread over one 100 ms burst have spawned one projectile
C2_Witness ==
  /\ burstCalls >= 10
  /\ burstShots = 1
  /\ now - burstStart > 0

\* C3: a projectile is in the active set only while its life is positive; it is
\* removed at the first tick at which its life is <= 0, and its age at removal
\* is PROJECTILE_LIFETIME to within one tick interval: not less than the
\* lifetime minus the interval it was fired in, and less than the lifetime plus
\* the interval of the removing tick, whatever the intervals are.
C3_ProjectileLifetime ==
  /\ \A i \in 1 .. Len(projectiles) :
        /\ projectiles[i].life > 0
        /\ lastFrameTimeRef - projectiles[i].born < PROJECTILE_LIFETIME
  /\ \A e \in expired :
        /\ e.age >= PROJECTILE_LIFETIME - e.firstStep
        /\ e.age < PROJECTILE_LIFETIME + e.lastStep

\* a projectile fired between two ticks has expired under irregular intervals
C3_Witness ==
  \E e \in expired :
    /\ e.firstStep # e.lastStep
    /\ e.age < PROJECTILE_LIFETIME

(***************************************************************************)
(* Properties of the coordinate primitives                                 *)
(***************************************************************************)

\* C4 (as stated): for all arguments, inside the world or not, the wrapped
\* distance has absolute value at most WORLD_SIZE / 2.
C4_Original ==
  coordOp = "wrap" =>
    /\ Abs(wrapResult) <= WorldExtent \div 2
    /\ Abs(starWrapResult) <= WorldExtent \div 2

\* C5: normalizeCoord(x) lies in [0, WORLD_SIZE) for every x, negative x and
\* x >= WORLD_SIZE included, and normalizing twice equals normalizing once.
C5_NormalizeRange ==
  coordOp = "normalize" =>
    /\ normResult >= 0
    /\ normResult < WorldExtent
    /\ normTwice = normResult

\* a negative argument below -WORLD_SIZE was normalized
C5_Witness ==
  /\ coordOp = "normalize"
  /\ coordA < -WorldExtent
  /\ normResult = WorldExtent - 1

(***************************************************************************)
(* Properties of the frame clock                                           *)
(***************************************************************************)

\* C6: on every tick the derived step deltaTime is at most 33.33 ms whatever
\* the raw interval, and it is 16.67 ms on a tick that has no prior timestamp
\* (lastTime = 0).
C6_DeltaTimeClamp ==
  /\ [](deltaTime <= DeltaCap)
  /\ [][(frameCounter' = frameCounter + 1 /\ lastTime = 0)
          => deltaTime' = DefaultDelta]_vars

\* a tick with a prior timestamp whose raw interval (60 ms) was capped
C6_Witness == frameCounter > 1 /\ lastTime # 0 /\ deltaTime = DeltaCap

\* C7: with 60 recorded intervals detectRefreshRate locks the candidate
\* nearest to round(1000 / mean interval), the lower one on a tie; a mean that
\* implies 119 Hz locks 120.
C7_NearestRate ==
  LET \* LowestOf: SpaceMap.tsx 216-221
      LowestOf(S) == CHOOSE c \in S : \A c2 \in S : c <= c2
      \* NearestRates: SpaceMap.tsx 216-221
      \* the candidates nearest to m by absolute difference
      NearestRates(m) ==
        LET R == {commonRates[i] : i \in 1 .. Len(commonRates)}
        IN  {c \in R : \A c2 \in R : Abs(c - m) <= Abs(c2 - m)}
  IN
  (refreshRateDetected /\ HistoryLen(frameTimeHistory) = SampleCount) =>
    /\ refreshRate = LowestOf(NearestRates(MeasuredRate(frameTimeHistory)))
    /\ (MeasuredRate(frameTimeHistory) = 119 => refreshRate = 120)

\* 60 samples whose mean implies 119 Hz have been locked
C7_Witness ==
  /\ refreshRateDetected
  /\ HistoryLen(frameTimeHistory) = SampleCount
  /\ MeasuredRate(frameTimeHistory) = 119
  /\ refreshRate = 120

\* C8 (as stated): while the map screen is active and all intervals between
\* ticks are valid, every tick after the first records its interval, and the
\* rate is locked once 60 intervals have been delivered (61 ticks).
C8_Original ==
  (currentScreen = "world" /\ loopScreen = "world" /\ allValid) =>
    /\ (~refreshRateDetected =>
          HistoryLen(frameTimeHistory) =
            (IF frameCounter = 0 THEN 0 ELSE frameCounter - 1))
    /\ (frameCounter >= SampleCount + 1 => refreshRateDetected)

\* C9: the detected rate is the default 60 until 60 valid samples are in the
\* history, only valid samples (0 < interval < 50 ms) are ever recorded, and
\* once locked neither the flag nor the rate changes again.
C9_LockOnce ==
  /\ [](~refreshRateDetected => refreshRate = DefaultRefreshRate)
  /\ [](HistoryLen(frameTimeHistory) < SampleCount => ~refreshRateDetected)
  /\ [](\A v \in DOMAIN frameTimeHistory :
          frameTimeHistory[v] > 0 => (v > 0 /\ v < SampleLimit))
  /\ [][refreshRateDetected =>
          (refreshRateDetected' /\ refreshRate' = refreshRate)]_vars

\* a rate other than the default was locked and the loop ticked on after it
C9_Witness ==
  /\ refreshRateDetected
  /\ refreshRate # DefaultRefreshRate
  /\ frameCounter > SampleCount + 1

\* C10 (as stated): a tick performs the draw pass exactly when the frame
\* counter modulo the skip factor is 0 (skip factor 3 at >= 144 Hz, 2 at
\* >= 120 Hz, else 1, and 1 on a small canvas).
C10_Original == frameCounter > 0 => (drewFrame <=> ~skipFrame)

(***************************************************************************)
(* Properties of the landing animation                                     *)
(***************************************************************************)

\* C13: for a fixed initial ship position and planet position, the landing
\* trajectory puts the ship at the initial position at progress 0 and at the
\* planet position at progress 1, and the distance from the ship to the planet
\* never grows from one draw pass to a later one.
C13_Trajectory ==
  [][ LET \* DistanceToPlanet: SpaceMap.tsx 2593-2595
          DistanceToPlanet(s) == Hypot(s.x - PlanetX, s.y - PlanetY)
      IN
      (isLandingAnimationActive /\ landingAnimationData.active)
      => /\ (now' = landingAnimationData.startTime
               => /\ drawShip'.x = landingAnimationData.initialShipX
                  /\ drawShip'.y = landingAnimationData.initialShipY)
         /\ (now' - landingAnimationData.startTime >= LANDING_DURATION
               => drawShip'.x = PlanetX /\ drawShip'.y = PlanetY)
         /\ DistanceToPlanet(drawShip') <= DistanceToPlanet(drawShip) ]_vars

\* a draw pass at progress 1: the ship is drawn at the planet, away from where
\* it rested when the landing was confirmed
C13_Witness ==
  /\ isLandingAnimationActive
  /\ now - landingAnimationData.startTime >= LANDING_DURATION
  /\ drawShip.x = PlanetX /\ drawShip.y = PlanetY
  /\ drawShip # ship

\* C12: when a landing animation completes, the ship is put at the planet
\* position with zero velocity, and the planet transition
\* (setCurrentScreen("planet") / setCurrentPlanet) is called exactly once for
\* that landing, however frame callbacks and renders interleave.
C12_Original ==
  /\ planetCalls <= 1
  /\ (planetCalls >= 1 /\ pending = << >>)
       => ship = [x |-> PlanetX, y |-> PlanetY, vx |-> 0, vy |-> 0]

(***************************************************************************)
(* Properties of the frame callback as a whole                             *)
(***************************************************************************)

\* C11: every tick that runs on the map screen performs the pointer/thrust
\* and physics update, the camera update, the projectile update, the radar
\* update and the trail update, whatever skipFrame and the frame counter are.
C11_SimulationNeverSkipped ==
  [][ LET \* Queued: SpaceMap.tsx 1904-2125
         \* the updaters that the step has added to the queue
         Queued == SubSeq(pending', Len(pending) + 1, Len(pending'))
      IN
      (gameLoopRef /\ loopScreen = "world" /\ frameCounter' = frameCounter + 1)
      => /\ shipTicks' = shipTicks + 1
         /\ \/ \E i \in 1 .. Len(Queued) : Queued[i].kind = "ship"
            \/ ship' = ShipUpdate(ship, camera, mouseRef, hasMouseMoved,
                                  loopInWindow, loopModal,
                                  isBarrierCollisionEnabled)
         /\ \E i \in 1 .. Len(Queued) : Queued[i].kind = "camera"
         /\ lastFrameTimeRef' = now'
         /\ projectiles' =
              ProjectileUpdate(projectiles, now' - lastFrameTimeRef).kept
         /\ radarPulses' =
              RadarUpdate(radarPulses, lastRadarPulseTime, ship', PerfBase + now').pulses
         /\ (trailPoints # << >> => trailPoints' # trailPoints) ]_vars

\* a skipped frame on which the whole simulation has run: a projectile, a
\* radar pulse and a trail point are there and have been updated
C11_Witness ==
  /\ skipFrame
  /\ refreshRateDetected
  /\ shipTicks = frameCounter - SampleCount
  /\ lastFrameTimeRef = now
  /\ projectiles # << >>
  /\ radarPulses # << >>
  /\ trailPoints # << >>
  /\ Hypot(ship.vx, ship.vy) > 0

\* C16: within a tick the ship and camera state is fully advanced before the
\* canvas draw pass and the star renderer read it: the draw pass of a tick and
\* the star renderer use the same camera position, and what the draw pass
\* reads already includes the updates that the tick has issued.
C16_Original ==
  (drewFrame /\ pending # << >>)
    => LET g == ApplyPending([ship |-> ship, camera |-> camera], pending, now)
       IN  /\ drawCamera = starCamera
           /\ drawCamera = g.camera
           /\ drawShip = g.ship

\* C14: a trail point created more than TRAIL_LIFETIME ms ago is not in the
\* active trail set once updateTrailPoints has been called, whatever the
\* intervals between the ticks are.
C14_Original ==
  \A i \in 1 .. Len(trailPoints) :
     PerfBase + now - trailPoints[i].born <= TRAIL_LIFETIME

(***************************************************************************)
(* Properties of the loop after the map screen is left                     *)
(***************************************************************************)
\* C15: once currentScreen is no longer "world", the game loop performs no
\* further update or draw (no frame callback gets past the screen guard) and
\* no animation frame is requested any more.
C15_Original ==
  [][ currentScreen # "world"
      => /\ frameCounter' = frameCounter
         /\ ~(~gameLoopRef /\ gameLoopRef') ]_vars

(***************************************************************************)
(* Properties of the ship's speed                                          *)
(***************************************************************************)
Speed == Hypot(ship.vx, ship.vy)

\* C19: in every reachable state the ship's speed sqrt(vx^2 + vy^2) is at most
\* SHIP_MAX_SPEED, whatever the pointer does and however the barrier is set.
C19_SpeedBound == Speed <= SHIP_MAX_SPEED * PosScale

\* the ship flies at more than nine tenths of a unit per tick after the
\* barrier has been switched off and the pointer has moved
C19_Witness ==
  /\ 10 * Speed > 9 * PosScale
  /\ ~isBarrierCollisionEnabled
  /\ hasMouseMoved
  /\ pointerEvents = MaxPointerEvents

SpeedTolerance == PosScale \div 10      \* a tenth of a unit per tick

\* C20: in the end-to-end scenario the ship's speed grows from tick to tick
\* during the 60 ticks and approaches SHIP_MAX_SPEED: after the 60th tick it
\* is within SpeedTolerance of SHIP_MAX_SPEED.
C20_Original ==
  [][ LET \* EastScenario: SpaceMap.tsx 1437-1441
          \* the end-to-end scenario: the pointer was put 300 units east of the ship
          \* at the spawn point before the first tick and has stayed there
          EastScenario ==
            /\ pointerEvents = 1
            /\ hasMouseMoved
            /\ mouseInWindow
            /\ mouseRef = [x |-> CanvasWidth \div 2 + 300 * PosScale,
                           y |-> CanvasHeight \div 2]
      IN
      (EastScenario /\ shipTicks < 60 /\ shipTicks' = shipTicks + 1)
      => /\ Hypot(ship'.vx, ship'.vy) >= Speed
         /\ (shipTicks' = 60
               => Hypot(ship'.vx, ship'.vy)
                    >= SHIP_MAX_SPEED * PosScale - SpeedTolerance) ]_vars

(***************************************************************************)
(* Properties of the WebGL star renderer                                   *)
(***************************************************************************)
\* C17: if creating the WebGL context fails, the star renderer of either tier
\* only aborts its own initialization: no exception leaves the renderer, and
\* the simulation loop keeps its frame requested.
C17_Original ==
  (starPhase # "unmounted" /\ ~webglAvailable)
    => /\ ~errorPropagated
       /\ rendererRef = "none"
       /\ gameLoopRef

\* C18: once the map view is torn down, the star renderer has disposed its
\* renderer, every star geometry and material it created, and has no
\* animation frame requested.
C18_Original ==
  starPhase = "torn_down"
    => /\ rendererRef # "live"
       /\ pointsLive = 0
       /\ ~animationIdRef

(***************************************************************************)
(* Properties of the star renderers' parallax offset                       *)
(***************************************************************************)

\* C26 (as stated): for every star and camera position in [0, WORLD_SIZE),
\* the camera-relative offset of both renderer tiers equals the parallax
\* times the wrapped distance of the simulation (WORLD_SIZE = 100000).
C26_Original ==
  coordOp = "star" =>
    /\ fullTierOffset =
         ParallaxOf(GetWrappedDistance(coordA, coordB), starParallax)
    /\ mobileTierOffset =
         ParallaxOf(GetWrappedDistance(coordA, coordB), starParallax)

\* C27: for a star list of length n the reduced tier draws at most 3000
\* stars: all n stars when n <= 3000, otherwise the stars whose index is a
\* multiple of ceil(n / 3000), at most 3000 of them.
C27_UniformSample ==
  LET \* MultiplesOf: MobileOptimizedWebGLStars.tsx 145-148
      \* the first k multiples of step, from 0
      MultiplesOf(step, k) == [j \in 1 .. k |-> (j - 1) * step]
  IN
  (isMobile /\ pointsLive > 0) =>
    /\ Len(drawnStars) <= MaxStars
    /\ starCount <= MaxStars =>
         drawnStars = MultiplesOf(1, starCount)
    /\ starCount > MaxStars =>
         LET step == CeilDiv(starCount, MaxStars)
         IN  drawnStars =
               MultiplesOf(step, Min(MaxStars, CeilDiv(starCount, step)))

\* the 5850 stars of a mobile device were sampled: every second star
C27_Witness ==
  /\ isMobile
  /\ pointsLive > 0
  /\ starCount = 5850
  /\ Len(drawnStars) = 2925
  /\ drawnStars[2925] = 5848

(***************************************************************************)
(* Properties of world editing                                             *)
(***************************************************************************)
\* C29 (as stated): at all times, also after any sequence of inputs to the
\* size and landing-area sliders, the planet's interactionRadius is at least
\* its size.
C29_Original == planet.interactionRadius >= planet.size

\* C30: whatever the pointer, keyboard and unmount handlers do, the planet
\* keeps its position, size, rotation and interaction radius, no save timer
\* is armed and updateWorldPosition is not called unless the user is an
\* admin.
C30_AdminOnly ==
  ~isAdmin => /\ planet = DefaultPlanet
              /\ worldTimeouts = NoTimeouts
              /\ ~lastWorldUpdate.called

\* a user who is no admin has moved the pointer and clicked the planet with
\* the store in edit mode, and the view has been unmounted
C30_Witness ==
  /\ ~isAdmin
  /\ isWorldEditMode
  /\ pointerMoved
  /\ showLandingModal
  /\ ~mounted

(***************************************************************************)
(* Properties of the clicks                                                *)
(***************************************************************************)
\* C22 (as stated): whenever the landing dialog is open or the landing
\* animation runs, it was opened by a click made with the ship within the
\* planet's interactionRadius, and that click was on a visible pixel
\* (alpha > 50) of the planet image as drawn, or, the image not being
\* loaded, within the planet's visual radius.
C22_Original ==
  (showLandingModal \/ isLandingAnimationActive)
    => /\ landingClick.made
       /\ landingClick.inRange
       /\ landingClick.rotation = 0
            => IF landingClick.imageLoaded
                 THEN landingClick.onVisiblePixel
                 ELSE landingClick.inVisualRadius

(***************************************************************************)
(* Properties of the pointer thrust                                        *)
(***************************************************************************)

\* C24 (as stated): pointer thrust changes the velocity only on ticks where
\* the pointer has moved since it last left the canvas and neither the
\* landing dialog, nor the NPC dialog, nor the landing animation is active.
C24_Original ==
  [][LET \* ThrustApplied: SpaceMap.tsx 1907-1928
        \* this step is a tick whose velocity differs from what friction and the
        \* barrier alone make of it: the pointer block has pushed the ship
        ThrustApplied ==
          /\ shipTicks' = shipTicks + 1
          /\ LET coasting == ShipUpdate(ship, camera, mouseRef, FALSE, mouseInWindow,
                                        FALSE, isBarrierCollisionEnabled)
             IN  ship'.vx # coasting.vx \/ ship'.vy # coasting.vy
     IN
     ThrustApplied => /\ pointerMoved
                      /\ ~showLandingModal
                      /\ ~showNPCModal
                      /\ ~isLandingAnimationActive]_vars

(***************************************************************************)
(* Properties of the radar cadence                                         *)
(***************************************************************************)
\* C23: while the ship stays within the planet's interaction radius, two
\* successive radar pulses are at least 1200 ms apart by frame timestamp,
\* and no tick at which 1200 ms have passed since the previous pulse goes
\* by without a new pulse, however many ticks lie in between.
C23_RadarCadence ==
  /\ radarLog.gap = -1 \/ radarLog.gap >= RADAR_PERIOD
  /\ ~radarLog.missed

\* a second pulse has been created, the ship in range all the time, and
\* more than one tick after the first
C23_Witness ==
  /\ radarLog.gap >= RADAR_PERIOD
  /\ radarLog.gap > 500
  /\ Len(radarPulses) >= 2

(***************************************************************************)
(* Properties of mount, unmount and persistence                            *)
(***************************************************************************)
\* C25 (as stated): forceSaveShipState is called only when the view is
\* unmounted; while the view stays mounted, ticks and the re-runs of the
\* loop effect that follow them call only saveShipState.
C25_Original == ~forceSavedMounted

\* C28: when the view is mounted, the ship is at the persisted x, y and the
\* camera at the persisted cameraX, cameraY if a state was persisted, and
\* both are at the default spawn point (CENTER_X, CENTER_Y + 200)
\* otherwise; the velocity is (0, 0) and the angle is 0 in both cases.
C28_SessionStart ==
  [][(~mounted /\ mounted')
       => LET g == mountState'.state
          IN  /\ g.ship.angle = 0
              /\ ship' = [x |-> g.ship.x, y |-> g.ship.y, vx |-> 0, vy |-> 0]
              /\ camera' = g.camera
              /\ IF savedShipState.saved
                   THEN /\ ship'.x = savedShipState.x
                        /\ ship'.y = savedShipState.y
                        /\ camera' = [x |-> savedShipState.cameraX,
                                      y |-> savedShipState.cameraY]
                   ELSE /\ ship'.x = CENTER_X
                        /\ ship'.y = CENTER_Y + 200 * PosScale
                        /\ camera' = [x |-> CENTER_X,
                                      y |-> CENTER_Y + 200 * PosScale]]_vars

\* the view has just been mounted for the second time, from the state of a
\* ship that was moving away from the spawn point when it was saved
C28_Witness ==
  /\ mounted
  /\ mountState.count = 2
  /\ frameCounter = 0
  /\ savedShipState.saved
  /\ savedShipState.vy # 0
  /\ savedShipState.y # CENTER_Y + 200 * PosScale
  /\ ship = [x |-> savedShipState.x, y |-> savedShipState.y,
             vx |-> 0, vy |-> 0]

C33_Original ==
  (coordOp = "wrap" /\ InWorld(coordA) /\ InWorld(coordB)) =>
    wrapResult =
      ((coordA - coordB + WorldExtent \div 2) % WorldExtent)
        - WorldExtent \div 2

(***************************************************************************)
(* Properties of the trail in a flight                                     *)
(***************************************************************************)
\* C35 (as stated): on a mobile device trail points are sampled at most once
\* per 70 ms, in normal flight as well as during the landing animation: two
\* successive points of the trail are at least 70 ms apart.
C35_Original ==
  isMobile =>
    \A i \in 1 .. Len(trailPoints) - 1 :
      trailPoints[i + 1].born - trailPoints[i].born >= TrailGapMobile

\* C36: the trail holds at most TRAIL_MAX_POINTS points (half of it, rounded
\* down, on mobile); the points it holds are those of the most recent
\* createTrailPoint calls, without gaps, the newest one last, so on
\* overflow it is the oldest point that went.
C36_TrailCapped ==
  /\ Len(trailPoints) <= (IF isMobile THEN TRAIL_MAX_POINTS \div 2
                          ELSE TRAIL_MAX_POINTS)
  /\ \A i \in 1 .. Len(trailPoints) - 1 :
       /\ trailPoints[i + 1].call = trailPoints[i].call + 1
       /\ trailPoints[i + 1].born > trailPoints[i].born
  /\ trailPoints # << >> =>
       trailPoints[Len(trailPoints)].born = lastTrailTime

\* a desktop trail of 25 points whose oldest point is not the first one made
C36_Witness ==
  /\ ~isMobile
  /\ Len(trailPoints) = TRAIL_MAX_POINTS
  /\ trailPoints[1].call > 1

(***************************************************************************)
(* Properties of the slide along the barrier                               *)
(***************************************************************************)
SlideEpsilon == PosScale \div 2 ^ 9   \* rounding allowance, 1/512 world unit

\* C32: on a tick whose tentative position lies outside the barrier the ship
\* is displaced by the tangential part of its movement, and by the radial
\* part only if that points to the center; afterwards its velocity has no
\* positive component along the outward normal (the direction from the
\* center to the position the ship had before the tick).
C32_BarrierSlide ==
  [][ LET thrust  == IF hasMouseMoved /\ ~showLandingModal
                       THEN Thrust(ship, camera, mouseRef, mouseInWindow)
                       ELSE ship
          moved   == Friction(thrust, mouseInWindow)
          outside == Hypot(moved.x + moved.vx - CENTER_X,
                           moved.y + moved.vy - CENTER_Y)
                       > BARRIER_RADIUS * PosScale
          dist    == Hypot(ship.x - CENTER_X, ship.y - CENTER_Y)
          normalX == RoundDiv(RoundDiv(ship.x - CENTER_X, HypotScale) * NormScale,
                              dist \div HypotScale)
          normalY == RoundDiv(RoundDiv(ship.y - CENTER_Y, HypotScale) * NormScale,
                              dist \div HypotScale)
          Radial(ax, ay)     == RoundDiv(ax * normalX + ay * normalY, NormScale)
          Tangential(ax, ay) == RoundDiv(ay * normalX - ax * normalY, NormScale)
          Near(a, b) == a - b <= SlideEpsilon /\ b - a <= SlideEpsilon
          stepX   == ship'.x - ship.x
          stepY   == ship'.y - ship.y
      IN
      (isBarrierCollisionEnabled /\ shipTicks' = shipTicks + 1 /\ outside)
      => /\ Near(Tangential(stepX, stepY), Tangential(moved.vx, moved.vy))
         /\ Near(Radial(stepX, stepY),
                 Min(Radial(moved.vx, moved.vy), 0))
         /\ Radial(ship'.vx, ship'.vy) <= SlideEpsilon
    ]_vars

\* the ship has slid along the barrier: it is on the barrier, south of the
\* center, moving east, with no outward velocity left
C32_Witness ==
  /\ isBarrierCollisionEnabled
  /\ Hypot(ship.x - CENTER_X, ship.y - CENTER_Y) >= BARRIER_RADIUS * PosScale
  /\ ship.y > CENTER_Y
  /\ ship.vx > PosScale \div 2
  /\ ship.vy <= SlideEpsilon

(***************************************************************************)
(* Properties of the camera follow                                         *)
(***************************************************************************)
\* C34: on every tick the camera moves on each axis by 0.08 times the wrapped
\* distance from the camera to its target, the ship, and is then normalized;
\* when the ship has not moved in the tick, the wrapped distance to it is
\* 0.92 times what it was (to the rounding of a position), it has not
\* changed sign, and the step is the short way: at most 0.08 times half the
\* world, across the seam where the camera and the ship are on either side.
C34_CameraFollow ==
  [][ LET Follows(target, before, after) ==
            LET delta == GetWrappedDistance(target, before)
                step  == RoundDiv(delta * CameraFollowPercent, 100)
            IN  /\ after = NormalizeCoord(before + step)
                /\ InWorld(after)
                /\ step * 100 <= CameraFollowPercent * (WorldExtent \div 2)
                /\ -(step * 100) <= CameraFollowPercent * (WorldExtent \div 2)
          Shrinks(target, before, after) ==
            LET delta == GetWrappedDistance(target, before)
                left  == GetWrappedDistance(target, after)
            IN  /\ left * 100 - delta * (100 - CameraFollowPercent) <= 50
                /\ delta * (100 - CameraFollowPercent) - left * 100 <= 50
                /\ delta > 0 => left >= 0 /\ left <= delta
                /\ delta < 0 => left <= 0 /\ left >= delta
                /\ delta = 0 => left = 0
      IN
      (shipTicks' = shipTicks + 1)
      => /\ Follows(ship'.x, camera.x, camera'.x)
         /\ Follows(ship'.y, camera.y, camera'.y)
         /\ (ship'.x = ship.x => Shrinks(ship.x, camera.x, camera'.x))
         /\ (ship'.y = ship.y => Shrinks(ship.y, camera.y, camera'.y))
    ]_vars

\* the camera has followed a ship at rest across the seam: it started on the
\* other side of the seam in x and in y and is now on the side of the ship
C34_Witness ==
  /\ shipTicks >= 20
  /\ ~hasMouseMoved
  /\ ship = [x |-> 5 * PosScale, y |-> 3 * PosScale, vx |-> 0, vy |-> 0]
  /\ camera.x < ship.x
  /\ camera.y < ship.y
  /\ camera # [x |-> ship.x, y |-> ship.y]

(***************************************************************************)
(* Properties of a press on a planet                                       *)
(***************************************************************************)
\* C37 (as stated): a press-and-click on a planet that opens the landing
\* dialog spawns no projectile: when the button goes down with the pointer
\* on a spot of the planet where a click opens the dialog, no projectile is
\* added.
C37_Original ==
  [][ (/\ ~isMousePressed /\ isMousePressed'
       /\ hasMouseMoved
       /\ ~isLandingAnimationActive
       /\ HitTest(mouseRef, FALSE) = "planet")
      => projectiles' = projectiles
    ]_vars

(***************************************************************************)
(* Properties of the auto-fire timer                                       *)
(***************************************************************************)
\* C38: at most one auto-fire interval timer exists at any time, and it is
\* the one that shootingIntervalRef holds; while the button is up (after
\* mouse up or after the pointer left the canvas) and while the view is
\* unmounted no timer exists, so no timer spawns a projectile until the
\* next press.
C38_OneAutoFireTimer ==
  /\ intervalTimers <= 1
  /\ intervalTimers = (IF shootingIntervalRef # 0 THEN 1 ELSE 0)
  /\ (~mounted \/ ~isMousePressed) => intervalTimers = 0

\* the view was unmounted with the button down, after a second projectile
\* was spawned a cooldown after the first: no timer is left
C38_Witness ==
  /\ ~mounted
  /\ isMousePressed
  /\ Len(shotTimes) >= 2
  /\ intervalTimers = 0

(***************************************************************************)
(* Properties of the animation-frame requests of the loop                  *)
(***************************************************************************)
\* C39: at any time at most one animation frame of gameLoop is requested,
\* and it is the one gameLoopRef holds: the cleanup of the loop effect
\* cancels the requested frame before the effect requests a new one, and a
\* frame callback requests its successor only after it has run itself.
C39_OneFrameRequest ==
  /\ frameRequests <= 1
  /\ frameRequests = (IF gameLoopRef THEN 1 ELSE 0)
  /\ ~mounted => frameRequests = 0

\* the loop effect has been re-run after a frame callback, in the second
\* mount of the view: one frame is requested
C39_Witness ==
  /\ mounted
  /\ mountState.count >= 2
  /\ frameCounter >= 1
  /\ ~effectStale
  /\ forceSavedMounted
  /\ frameRequests = 1

(***************************************************************************)
(* Properties of the loop after the return to the map screen               *)
(***************************************************************************)
\* C40 (as stated): if currentScreen leaves "world" and later returns to
\* "world" while the map view is still mounted, the game loop resumes:
\* whenever the map screen is the current one, a frame of gameLoop is
\* requested then or later.
C40_Original ==
  []((mounted /\ currentScreen = "world") => <>(frameRequests > 0))

====
